---- MODULE Spec2Model ----
(***************************************************************************)
(* A model of the access-control core of mcp-trino: the read-only SQL     *)
(* classifier and the Trino client that it gates (internal/trino),         *)
(* the allowlist filters, the HMAC bearer-token validator and the OAuth2   *)
(* proxy handlers (internal/oauth).                                        *)
(*                                                                         *)
(* Strings are sequences of one-character strings, so that splitting,      *)
(* case folding, regular-expression matching and URL building are          *)
(* computed character by character, as the Go code computes them.          *)
(***************************************************************************)
EXTENDS Integers, Sequences, FiniteSets, TLC

VARIABLES
    sqlText,    \* classifier: the SQL text handed to isReadOnlyQuery
    verdict,    \* classifier: "pending", then "readonly" or "rejected"
    config,     \* client: c.config, fixed at construction
    engineLog,  \* client: the statements handed to the engine, in order
    last,       \* client: the last call, its arguments and what it returned
    validator,  \* HMAC validator: its fields and what Initialize returned
    validation, \* HMAC validator: the last token and what ValidateToken returned
    handler,    \* OAuth2 handler: h.config.RedirectURI, h.oauth2Config.RedirectURL
    inflight,   \* OAuth2 handler: the requests being served, each at its step
    provider,   \* OAuth2 handler: the requests it has sent to the provider
    response    \* OAuth2 handler: the last request answered and its response

classifierVars == <<sqlText, verdict>>

clientVars == <<config, engineLog, last>>

hmacVars == <<validator, validation>>

oauthVars == <<handler, inflight, provider, response>>

vars ==
    <<sqlText, verdict, config, engineLog, last, validator, validation,
      handler, inflight, provider, response>>

(***************************************************************************)
(* Bounds of the model.                                                    *)
(***************************************************************************)
\* The longest query, in tokens, that the classifier is applied to.
MaxTokens == 4

\* The most statements a run of client calls hands to the engine.
MaxLog == 2

\* The longest statement, in tokens, whose first word the classifier is
\* applied to.
MaxWords == 3

\* The longest list of names a filter is applied to.
MaxNames == 2

\* The longest statement, in pieces after its first keyword, that the
\* classifier is compared with the lexing of SQL on.
MaxPieces == 4

\* The parts of the message of a connection error.
MaxParts == 3

\* The longest list a token's aud claim holds.
MaxAudiences == 2

\* The most requests a run of an OAuth2 handler sends to the provider.
MaxSent == 2

\* The seconds a call to the provider is followed for.
MaxWait == 12

(***************************************************************************)
(* Strings (Go package strings, on ASCII).                                 *)
(***************************************************************************)
UpperLetters ==
    <<"A", "B", "C", "D", "E", "F", "G", "H", "I", "J", "K", "L", "M",
      "N", "O", "P", "Q", "R", "S", "T", "U", "V", "W", "X", "Y", "Z">>

LowerLetters ==
    <<"a", "b", "c", "d", "e", "f", "g", "h", "i", "j", "k", "l", "m",
      "n", "o", "p", "q", "r", "s", "t", "u", "v", "w", "x", "y", "z">>

Digits == {"0", "1", "2", "3", "4", "5", "6", "7", "8", "9"}

\* unicode.IsSpace restricted to ASCII: what strings.TrimSpace trims.
SpaceChars == {" ", "\t", "\n", "\r", "\f"}

\* The class \s of Go's regexp: [\t\n\f\r ].
RegexSpace == {" ", "\t", "\n", "\r", "\f"}

\* The class \w of Go's regexp: [0-9A-Za-z_].
WordChars ==
    {UpperLetters[i] : i \in 1..26} \cup {LowerLetters[i] : i \in 1..26}
        \cup Digits \cup {"_"}

ToLowerChar(c) ==
    IF \E i \in 1..26 : UpperLetters[i] = c
    THEN LowerLetters[CHOOSE i \in 1..26 : UpperLetters[i] = c]
    ELSE c

\* strings.ToLower
ToLower(s) == [i \in 1..Len(s) |-> ToLowerChar(s[i])]

\* strings.EqualFold (ASCII simple folding)
EqualFold(s, t) == ToLower(s) = ToLower(t)

\* strings.TrimSpace
TrimSpace(s) ==
    LET keep == {i \in 1..Len(s) : s[i] \notin SpaceChars}
    IN  IF keep = {} THEN <<>>
        ELSE SubSeq(s, CHOOSE i \in keep : \A j \in keep : i <= j,
                       CHOOSE i \in keep : \A j \in keep : j <= i)

\* strings.ReplaceAll(s, old, new) for a one-character old and new
ReplaceAllChar(s, old, new) ==
    [i \in 1..Len(s) |-> IF s[i] = old THEN new ELSE s[i]]

\* strings.Contains(s, c) for a one-character c
ContainsChar(s, c) == \E i \in 1..Len(s) : s[i] = c

\* s[i:] of Go, with 1-based i
Suffix(s, i) == SubSeq(s, i, Len(s))

\* Whether t occurs in s at position i.
OccursAt(s, t, i) ==
    /\ i >= 1
    /\ i + Len(t) - 1 <= Len(s)
    /\ SubSeq(s, i, i + Len(t) - 1) = t

\* strings.Contains(s, text)
Contains(s, text) == \E i \in 1..(Len(s) + 1) : OccursAt(s, text, i)

\* The least element of a non-empty set of integers.
MinOf(S) == CHOOSE x \in S : \A y \in S : x <= y

RECURSIVE Concat(_)
\* The concatenation of a sequence of strings.
Concat(ss) == IF ss = <<>> THEN <<>> ELSE Head(ss) \o Concat(Tail(ss))

(***************************************************************************)
(* The classifier: isReadOnlyQuery and sanitizeQueryForKeywordDetection.   *)
(***************************************************************************)
RECURSIVE QuotedEnd(_, _, _)
\* The end of the match of (?:[^q]|qq)*q that starts at position i of s, or
\* 0 when there is none.  Go's regexp prefers, as Perl does, one more
\* iteration of the starred group to leaving it, and [^q] to qq.
QuotedEnd(s, i, q) ==
    IF i > Len(s) THEN 0
    ELSE IF s[i] # q THEN QuotedEnd(s, i + 1, q)
    ELSE IF i + 1 <= Len(s) /\ s[i + 1] = q
         THEN LET r == QuotedEnd(s, i + 2, q)
              IN  IF r # 0 THEN r ELSE i
         ELSE i

\* The backquote character, which a TLA+ string cannot hold.
Backquote == "<backquote>"

\* The end of the match of the backquoted-identifier pattern (a backquote,
\* any characters but backquotes, a backquote) whose opening backquote is
\* before position i of s, or 0.
BacktickEnd(s, i) ==
    LET close == {j \in i..Len(s) : s[j] = Backquote}
    IN  IF close = {} THEN 0 ELSE MinOf(close)

\* The end of the match of --[^\r\n]* whose "--" ends before position i.
LineCommentEnd(s, i) ==
    LET stop == {j \in i..Len(s) : s[j] \in {"\r", "\n"}}
    IN  IF stop = {} THEN Len(s) ELSE MinOf(stop) - 1

\* The end of the match of /\*[^*]*\*+(?:[^/*][^*]*\*+)*/ whose "/*" ends
\* before position i: the first "*/" that starts at i or later, or 0.
BlockCommentEnd(s, i) ==
    LET close == {j \in i..(Len(s) - 1) : s[j] = "*" /\ s[j + 1] = "/"}
    IN  IF close = {} THEN 0 ELSE MinOf(close) + 1

\* The end of the match of the pattern `kind` that starts at position i of
\* s, or 0 when the pattern does not match there.
MatchEnd(kind, s, i) ==
    CASE kind = "single"   -> IF s[i] = "'" THEN QuotedEnd(s, i + 1, "'") ELSE 0
      [] kind = "double"   -> IF s[i] = "\"" THEN QuotedEnd(s, i + 1, "\"") ELSE 0
      [] kind = "backtick" -> IF s[i] = Backquote THEN BacktickEnd(s, i + 1) ELSE 0
      [] kind = "line"     -> IF OccursAt(s, <<"-", "-">>, i)
                              THEN LineCommentEnd(s, i + 2) ELSE 0
      [] kind = "block"    -> IF OccursAt(s, <<"/", "*">>, i)
                              THEN BlockCommentEnd(s, i + 2) ELSE 0

RECURSIVE ReplaceFrom(_, _, _, _)
\* regexp.ReplaceAllString from position i on: the leftmost match is
\* replaced and the search goes on after it.
ReplaceFrom(kind, s, i, repl) ==
    IF i > Len(s) THEN <<>>
    ELSE LET e == MatchEnd(kind, s, i)
         IN  IF e # 0 THEN repl \o ReplaceFrom(kind, s, e + 1, repl)
             ELSE <<s[i]>> \o ReplaceFrom(kind, s, i + 1, repl)

ReplaceAllString(kind, s, repl) == ReplaceFrom(kind, s, 1, repl)

LITERAL == <<"'", "L", "I", "T", "E", "R", "A", "L", "'">>

IDENTIFIER == <<"\"", "I", "D", "E", "N", "T", "I", "F", "I", "E", "R", "\"">>

BACKTICK_IDENTIFIER ==
    <<Backquote, "I", "D", "E", "N", "T", "I", "F", "I", "E", "R", Backquote>>

sanitizeQueryForKeywordDetection(q) ==
    LET q1 == ReplaceAllString("single", q, LITERAL)
        q2 == ReplaceAllString("double", q1, IDENTIFIER)
        q3 == ReplaceAllString("backtick", q2, BACKTICK_IDENTIFIER)
        q4 == ReplaceAllString("line", q3, <<>>)
        q5 == ReplaceAllString("block", q4, <<>>)
    IN  TrimSpace(q5)

writeOperations ==
    << <<"i", "n", "s", "e", "r", "t">>,
       <<"u", "p", "d", "a", "t", "e">>,
       <<"d", "e", "l", "e", "t", "e">>,
       <<"d", "r", "o", "p">>,
       <<"c", "r", "e", "a", "t", "e">>,
       <<"a", "l", "t", "e", "r">>,
       <<"t", "r", "u", "n", "c", "a", "t", "e">>,
       <<"m", "e", "r", "g", "e">>,
       <<"c", "o", "p", "y">>,
       <<"g", "r", "a", "n", "t">>,
       <<"r", "e", "v", "o", "k", "e">>,
       <<"c", "o", "m", "m", "i", "t">>,
       <<"r", "o", "l", "l", "b", "a", "c", "k">>,
       <<"c", "a", "l", "l">>,
       <<"e", "x", "e", "c", "u", "t", "e">>,
       <<"r", "e", "f", "r", "e", "s", "h">>,
       <<"s", "e", "t">>,
       <<"r", "e", "s", "e", "t">> >>

readOnlyPrefixPatterns ==
    << <<"s", "e", "l", "e", "c", "t">>,
       <<"s", "h", "o", "w">>,
       <<"d", "e", "s", "c", "r", "i", "b", "e">>,
       <<"e", "x", "p", "l", "a", "i", "n">>,
       <<"w", "i", "t", "h">> >>

\* \b at the gap before position i of s (i in 1..Len(s)+1): exactly one of
\* the two neighbours is a word character.
WordBoundary(s, i) ==
    LET before == i > 1 /\ s[i - 1] \in WordChars
        after  == i <= Len(s) /\ s[i] \in WordChars
    IN  before # after

\* regexp.MatchString(`\bop\b`, s)
MatchesWord(s, op) ==
    \E i \in 1..Len(s) :
        /\ OccursAt(s, op, i)
        /\ WordBoundary(s, i)
        /\ WordBoundary(s, i + Len(op))

\* regexp.MatchString(`^\s*kw\b`, s)
MatchesPrefix(s, kw) ==
    LET nonspace == {i \in 1..Len(s) : s[i] \notin RegexSpace}
    IN  /\ nonspace # {}
        /\ OccursAt(s, kw, MinOf(nonspace))
        /\ WordBoundary(s, MinOf(nonspace) + Len(kw))

\* The text the checks of isReadOnlyQuery are made on.
normalizedQuery(query) ==
    sanitizeQueryForKeywordDetection(
        ReplaceAllChar(ReplaceAllChar(ToLower(TrimSpace(query)), "\n", " "),
                       "\r", " "))

\* A variant of HasWriteOperation that looks for a write keyword at the start
\* of the statement only, as a classifier by first word would.
WriteOperationAtStart(queryLower) ==
    \E k \in 1..Len(writeOperations) : MatchesPrefix(queryLower, writeOperations[k])

HasWriteOperation(queryLower) ==
    \E k \in 1..Len(writeOperations) : MatchesWord(queryLower, writeOperations[k])

HasReadOnlyPrefix(queryLower) ==
    \E k \in 1..Len(readOnlyPrefixPatterns) : MatchesPrefix(queryLower, readOnlyPrefixPatterns[k])

\* A variant of isReadOnlyQuery without the rejection of semicolons.
isReadOnlyQueryStacked(query) ==
    LET queryLower == normalizedQuery(query)
    IN  IF HasWriteOperation(queryLower) THEN FALSE
        ELSE HasReadOnlyPrefix(queryLower)

isReadOnlyQuery(query) ==
    LET queryLower == normalizedQuery(query)
    IN  IF ContainsChar(queryLower, ";") THEN FALSE
        ELSE IF HasWriteOperation(queryLower) THEN FALSE
        ELSE HasReadOnlyPrefix(queryLower)

(***************************************************************************)
(* The Trino client (internal/trino/client.go).  A method is an operator   *)
(* from the configuration, the arguments and the engine's answer to the    *)
(* method's result: the error returned, the value returned and the         *)
(* statements handed to the engine (c.db.QueryContext).                    *)
(***************************************************************************)
\* A nil error.
NoError == [kind |-> "none", detail |-> <<>>]

Error(kind, detail) == [kind |-> kind, detail |-> detail]

\* What a method did: err and out are what it returns, sent the statements
\* it handed to the engine, identity (GetTableSchema) the catalog, schema
\* and table it resolved its arguments to.
Outcome(err, out, sent) ==
    [err |-> err, out |-> out, sent |-> sent, identity |-> <<>>]

\* A variant of ExecuteQuery without the read-only gate.
ExecuteQueryUngated(cfg, query, answer) ==
    IF ~answer.ok
    THEN Outcome(Error("query execution failed", <<>>), <<>>, <<query>>)
    ELSE Outcome(NoError, answer.rows, <<query>>)

ExecuteQuery(cfg, query, answer) ==
    IF ~cfg.AllowWriteQueries /\ ~isReadOnlyQuery(query)
    THEN Outcome(Error("security restriction", <<>>), <<>>, <<>>)
    ELSE IF ~answer.ok
         THEN Outcome(Error("query execution failed", <<>>), <<>>, <<query>>)
         ELSE Outcome(NoError, answer.rows, <<query>>)

\* A variant of isCatalogAllowed that allows every catalog when the list is
\* empty.
isCatalogAllowedByDefault(cfg, catalog) ==
    \/ Len(cfg.AllowedCatalogs) = 0
    \/ \E k \in 1..Len(cfg.AllowedCatalogs) : EqualFold(catalog, cfg.AllowedCatalogs[k])

\* A variant of isTableAllowed that compares the names as they are written.
isTableAllowedExact(cfg, catalog, schema, table) ==
    \E k \in 1..Len(cfg.AllowedTables) :
        catalog \o <<".">> \o schema \o <<".">> \o table = cfg.AllowedTables[k]

isCatalogAllowed(cfg, catalog) ==
    \E k \in 1..Len(cfg.AllowedCatalogs) :
        EqualFold(catalog, cfg.AllowedCatalogs[k])

isSchemaAllowed(cfg, catalog, schema) ==
    LET fullSchemaName == catalog \o <<".">> \o schema
    IN  \E k \in 1..Len(cfg.AllowedSchemas) :
            EqualFold(fullSchemaName, cfg.AllowedSchemas[k])

isTableAllowed(cfg, catalog, schema, table) ==
    LET fullTableName == catalog \o <<".">> \o schema \o <<".">> \o table
    IN  \E k \in 1..Len(cfg.AllowedTables) :
            EqualFold(fullTableName, cfg.AllowedTables[k])

filterCatalogs(cfg, catalogs) ==
    IF Len(cfg.AllowedCatalogs) = 0 THEN catalogs
    ELSE SelectSeq(catalogs, LAMBDA catalog : isCatalogAllowed(cfg, catalog))

filterSchemas(cfg, schemas, catalog) ==
    IF Len(cfg.AllowedSchemas) = 0 THEN schemas
    ELSE SelectSeq(schemas, LAMBDA schema : isSchemaAllowed(cfg, catalog, schema))

filterTables(cfg, tables, catalog, schema) ==
    IF Len(cfg.AllowedTables) = 0 THEN tables
    ELSE SelectSeq(tables, LAMBDA table : isTableAllowed(cfg, catalog, schema, table))

SHOW_CATALOGS == <<"S", "H", "O", "W", " ", "C", "A", "T", "A", "L", "O", "G", "S">>

SHOW_SCHEMAS_FROM ==
    <<"S", "H", "O", "W", " ", "S", "C", "H", "E", "M", "A", "S", " ",
      "F", "R", "O", "M", " ">>

SHOW_TABLES_FROM ==
    <<"S", "H", "O", "W", " ", "T", "A", "B", "L", "E", "S", " ",
      "F", "R", "O", "M", " ">>

DESCRIBE == <<"D", "E", "S", "C", "R", "I", "B", "E", " ">>

EXPLAIN == <<"E", "X", "P", "L", "A", "I", "N">>

EXPLAIN_TYPE == <<"E", "X", "P", "L", "A", "I", "N", " ", "(", "T", "Y", "P", "E", " ">>

ExplainFormats ==
    { <<"L", "O", "G", "I", "C", "A", "L">>,
      <<"D", "I", "S", "T", "R", "I", "B", "U", "T", "E", "D">>,
      <<"V", "A", "L", "I", "D", "A", "T", "E">>,
      <<"I", "O">> }

ToUpperChar(c) ==
    IF \E i \in 1..26 : LowerLetters[i] = c
    THEN UpperLetters[CHOOSE i \in 1..26 : LowerLetters[i] = c]
    ELSE c

\* strings.ToUpper
ToUpper(s) == [i \in 1..Len(s) |-> ToUpperChar(s[i])]

RECURSIVE SplitFrom(_, _, _)
\* strings.Split(s, sep) for a one-character sep: the parts of s from
\* position i on, the part in progress starting at position start.
SplitFrom(s, sep, start) ==
    LET seps == {j \in start..Len(s) : s[j] = sep}
    IN  IF seps = {} THEN <<SubSeq(s, start, Len(s))>>
        ELSE <<SubSeq(s, start, MinOf(seps) - 1)>>
                 \o SplitFrom(s, sep, MinOf(seps) + 1)

Split(s, sep) == SplitFrom(s, sep, 1)

ListCatalogs(cfg, answer) ==
    LET r == ExecuteQuery(cfg, SHOW_CATALOGS, answer)
    IN  IF r.err # NoError THEN r
        ELSE IF Len(cfg.AllowedCatalogs) > 0
             THEN Outcome(NoError, filterCatalogs(cfg, r.out), r.sent)
             ELSE r

ListSchemas(cfg, catalogArg, answer) ==
    LET catalog == IF catalogArg = <<>> THEN cfg.Catalog ELSE catalogArg
        r == ExecuteQuery(cfg, SHOW_SCHEMAS_FROM \o catalog, answer)
    IN  IF r.err # NoError THEN r
        ELSE IF Len(cfg.AllowedSchemas) > 0
             THEN Outcome(NoError, filterSchemas(cfg, r.out, catalog), r.sent)
             ELSE r

ListTables(cfg, catalogArg, schemaArg, answer) ==
    LET catalog == IF catalogArg = <<>> THEN cfg.Catalog ELSE catalogArg
        schema  == IF schemaArg = <<>> THEN cfg.Schema ELSE schemaArg
        r == ExecuteQuery(cfg, SHOW_TABLES_FROM \o catalog \o <<".">> \o schema,
                          answer)
    IN  IF r.err # NoError THEN r
        ELSE IF Len(cfg.AllowedTables) > 0
             THEN Outcome(NoError, filterTables(cfg, r.out, catalog, schema), r.sent)
             ELSE r

\* A variant of ResolveTable that takes the table argument as a bare name.
ResolveTableUndotted(cfg, catalogArg, schemaArg, tableArg) ==
    <<IF catalogArg = <<>> THEN cfg.Catalog ELSE catalogArg,
      IF schemaArg = <<>> THEN cfg.Schema ELSE schemaArg,
      tableArg>>

\* The catalog, schema and table that GetTableSchema resolves its arguments to.
ResolveTable(cfg, catalogArg, schemaArg, tableArg) ==
    LET parts == Split(tableArg, ".")
    IN  IF Len(parts) = 3 THEN <<parts[1], parts[2], parts[3]>>
        ELSE IF Len(parts) = 2
             THEN <<IF catalogArg = <<>> THEN cfg.Catalog ELSE catalogArg,
                    parts[1], parts[2]>>
             ELSE <<IF catalogArg = <<>> THEN cfg.Catalog ELSE catalogArg,
                    IF schemaArg = <<>> THEN cfg.Schema ELSE schemaArg,
                    tableArg>>

QualifiedName(id) == id[1] \o <<".">> \o id[2] \o <<".">> \o id[3]

\* A variant of GetTableSchema that asks the allowlist about its arguments
\* as they came.
GetTableSchemaUnresolved(cfg, catalogArg, schemaArg, tableArg, answer) ==
    LET id == ResolveTable(cfg, catalogArg, schemaArg, tableArg)
    IN  IF Len(cfg.AllowedTables) > 0 /\ ~isTableAllowed(cfg, catalogArg, schemaArg, tableArg)
        THEN [Outcome(Error("table access denied", QualifiedName(id)), <<>>, <<>>)
                  EXCEPT !.identity = id]
        ELSE [ExecuteQuery(cfg, DESCRIBE \o QualifiedName(id), answer)
                  EXCEPT !.identity = id]

GetTableSchema(cfg, catalogArg, schemaArg, tableArg, answer) ==
    LET id == ResolveTable(cfg, catalogArg, schemaArg, tableArg)
    IN  IF Len(cfg.AllowedTables) > 0 /\ ~isTableAllowed(cfg, id[1], id[2], id[3])
        THEN [Outcome(Error("table access denied", QualifiedName(id)), <<>>, <<>>)
                  EXCEPT !.identity = id]
        ELSE [ExecuteQuery(cfg, DESCRIBE \o QualifiedName(id), answer)
                  EXCEPT !.identity = id]

ExplainQuery(cfg, query, format, answer) ==
    LET f == ToUpper(TrimSpace(format))
    IN  IF f # <<>> /\ f \notin ExplainFormats
        THEN Outcome(Error("invalid EXPLAIN format", format), <<>>, <<>>)
        ELSE LET explainQuery ==
                     IF f # <<>> THEN EXPLAIN_TYPE \o f \o <<")">> ELSE EXPLAIN
             IN  ExecuteQuery(cfg, explainQuery \o <<" ">> \o query, answer)

(***************************************************************************)
(* The configuration (internal/config/config.go).  An environment is a set *)
(* of <<name, value>> pairs, at most one for a name; a name without a pair *)
(* is not set.  The secret and the audience are kept as opaque values, the *)
(* other values are texts.                                                 *)
(***************************************************************************)
OAUTH_MODE == "OAUTH_MODE"

OAUTH_PROVIDER == "OAUTH_PROVIDER"

OAUTH_ENABLED == "OAUTH_ENABLED"

JWT_SECRET == "JWT_SECRET"

OIDC_AUDIENCE == "OIDC_AUDIENCE"

TRINO_ALLOWED_SCHEMAS == "TRINO_ALLOWED_SCHEMAS"

TRINO_ALLOWED_TABLES == "TRINO_ALLOWED_TABLES"

getEnv(env, key, fallback) ==
    IF \E p \in env : p[1] = key
    THEN (CHOOSE p \in env : p[1] = key)[2]
    ELSE fallback

\* strconv.ParseBool, its error ignored: false for what is no boolean.
ParseBool(str) ==
    str \in {<<"1">>, <<"t">>, <<"T">>, <<"T", "R", "U", "E">>, <<"t", "r", "u", "e">>, <<"T", "r", "u", "e">>}

parseAllowlist(value) ==
    IF value = <<>> THEN <<>>
    ELSE LET items == Split(value, ",")
         IN  SelectSeq([k \in 1..Len(items) |-> TrimSpace(items[k])],
                       LAMBDA cleaned : cleaned # <<>>)

validateAllowlist(envVar, allowlist, expectedDots) ==
    IF \E k \in 1..Len(allowlist) :
           Cardinality({i \in 1..Len(allowlist[k]) : allowlist[k][i] = "."}) # expectedDots
    THEN Error("invalid format", envVar)
    ELSE NoError

hmac == <<"h", "m", "a", "c">>

validProviders == {hmac, <<"o", "k", "t", "a">>, <<"g", "o", "o", "g", "l", "e">>, <<"a", "z", "u", "r", "e">>}

validModes == {<<"n", "a", "t", "i", "v", "e">>, <<"p", "r", "o", "x", "y">>}

\* The local variables of NewTrinoConfig that its validation reads.
Settings(env) ==
    LET given == ToLower(getEnv(env, OAUTH_PROVIDER, <<>>))
    IN  [oauthMode |-> ToLower(getEnv(env, OAUTH_MODE, <<"n", "a", "t", "i", "v", "e">>)),
         oauthProvider |-> IF given # <<>> THEN given ELSE hmac,
         oauthEnabled |->
             IF given # <<>>
             THEN IF getEnv(env, OAUTH_ENABLED, <<>>) # <<>>
                  THEN ParseBool(getEnv(env, OAUTH_ENABLED, <<>>))
                  ELSE TRUE
             ELSE ParseBool(getEnv(env, OAUTH_ENABLED, <<"f", "a", "l", "s", "e">>)),
         jwtSecret |-> getEnv(env, JWT_SECRET, ""),
         oidcAudience |-> getEnv(env, OIDC_AUDIENCE, ""),
         allowedSchemas |-> parseAllowlist(getEnv(env, TRINO_ALLOWED_SCHEMAS, <<>>)),
         allowedTables |-> parseAllowlist(getEnv(env, TRINO_ALLOWED_TABLES, <<>>))]

\* A variant of the validation of the OAuth settings that asks for the
\* signing secret only.
oauthErrorSecretOnly(l) ==
    IF ~l.oauthEnabled THEN NoError
    ELSE IF l.oauthProvider \notin validProviders
    THEN Error("invalid OAuth provider", l.oauthProvider)
    ELSE IF l.oauthProvider = hmac /\ l.jwtSecret = ""
    THEN Error("security error: JWT_SECRET is required", l.oauthProvider)
    ELSE NoError

\* The validation of the OAuth settings (if oauthEnabled { ... }).
oauthError(l) ==
    IF ~l.oauthEnabled THEN NoError
    ELSE IF l.oauthProvider \notin validProviders
    THEN Error("invalid OAuth provider", l.oauthProvider)
    ELSE IF l.oauthProvider = hmac /\ l.jwtSecret = ""
    THEN Error("security error: JWT_SECRET is required", l.oauthProvider)
    ELSE IF l.oauthProvider # hmac /\ l.oidcAudience = ""
    THEN Error("security error: OIDC_AUDIENCE is required", l.oauthProvider)
    ELSE NoError

\* The result of NewTrinoConfig: an error and no configuration, or no error
\* and the configuration.
NewTrinoConfig(env) ==
    LET l == Settings(env)
        failed(err) == [err |-> err, cfg |-> <<>>]
    IN  IF validateAllowlist(TRINO_ALLOWED_SCHEMAS, l.allowedSchemas, 1) # NoError
        THEN failed(validateAllowlist(TRINO_ALLOWED_SCHEMAS, l.allowedSchemas, 1))
        ELSE IF validateAllowlist(TRINO_ALLOWED_TABLES, l.allowedTables, 2) # NoError
        THEN failed(validateAllowlist(TRINO_ALLOWED_TABLES, l.allowedTables, 2))
        ELSE IF l.oauthMode \notin validModes
        THEN failed(Error("invalid OAuth mode", l.oauthMode))
        ELSE IF oauthError(l) # NoError
        THEN failed(oauthError(l))
        ELSE [err |-> NoError,
              cfg |-> <<[OAuthEnabled |-> l.oauthEnabled,
                         OAuthMode |-> l.oauthMode,
                         OAuthProvider |-> l.oauthProvider,
                         JWTSecret |-> l.jwtSecret,
                         OIDCAudience |-> l.oidcAudience,
                         AllowedSchemas |-> l.allowedSchemas,
                         AllowedTables |-> l.allowedTables]>>]

(***************************************************************************)
(* Inputs.                                                                 *)
(***************************************************************************)
Tokens ==
    { <<"s", "e", "l", "e", "c", "t">>, <<"s", "e", "t">>, <<"x">>, <<" ">>,
      <<";">>, <<"'">>, <<"-", "-">>, <<"\n">>, <<"/", "*">>, <<"*", "/">> }

\* Every query of at most maxTokens tokens.
Queries(maxTokens) ==
    UNION { {Concat(ts) : ts \in [1..n -> Tokens]} : n \in 0..maxTokens }

CatalogC == <<"c">>

CatalogD == <<"d">>

SchemaS1 == <<"s", "1">>

SchemaS2 == <<"s", "2">>

TableT1 == <<"t", "1">>

TableT2 == <<"t", "2">>

Dotted(parts) ==
    IF Len(parts) = 1 THEN parts[1]
    ELSE IF Len(parts) = 2 THEN parts[1] \o <<".">> \o parts[2]
    ELSE parts[1] \o <<".">> \o parts[2] \o <<".">> \o parts[3]

\* c.config of a client: the defaults are catalog c and schema s1.
ClientConfig(allowWrite, catalogs, schemas, tables) ==
    [AllowWriteQueries |-> allowWrite,
     Catalog |-> CatalogC, Schema |-> SchemaS1,
     AllowedCatalogs |-> catalogs, AllowedSchemas |-> schemas,
     AllowedTables |-> tables]

\* The value of the client's variables when no client is under study.
NoClient == ClientConfig(FALSE, <<>>, <<>>, <<>>)

NoCall ==
    [op |-> "none", args |-> <<>>, answer |-> <<>>, err |-> NoError,
     out |-> <<>>, sent |-> <<>>, identity |-> <<>>]

\* What the engine answers to a statement: an error, or rows (here the
\* names in their first column).
Answers(rowsets) ==
    {[ok |-> FALSE, rows |-> <<>>]} \cup {[ok |-> TRUE, rows |-> r] : r \in rowsets}

(***************************************************************************)
(* The HMAC bearer-token validator (HMACValidator of internal/oauth).  A   *)
(* token is what its parsing yields: whether it is well formed, the secret *)
(* it was signed with, whether it has expired, and its sub and aud claims. *)
(***************************************************************************)
\* An HMACValidator before Initialize.
NewValidator ==
    [initialized |-> FALSE, secret |-> "", audience |-> "", err |-> "none"]

NoValidation ==
    [op |-> "none", token |-> <<>>, err |-> NoError, user |-> <<>>]

\* Initialize: the secret and the audience are both required.
Initialize(cfg) ==
    IF cfg.JWTSecret = ""
    THEN [NewValidator EXCEPT !.err = "JWT_SECRET is required for HMAC provider"]
    ELSE IF cfg.OIDCAudience = ""
         THEN [NewValidator EXCEPT !.err = "JWT audience is required for HMAC provider"]
         ELSE [initialized |-> TRUE, secret |-> cfg.JWTSecret,
               audience |-> cfg.OIDCAudience, err |-> "none"]

AbsentAudience == [kind |-> "absent", value |-> <<>>]

StringAudience(a) == [kind |-> "string", value |-> <<a>>]

ListAudience(as) == [kind |-> "list", value |-> as]

\* A variant of validateAudience that takes any audience claim that is present.
validateAudiencePresent(v, aud) ==
    IF aud.kind = "absent"
    THEN Error("AudienceMismatch", "missing audience claim")
    ELSE NoError

\* The audience check: nil, or the error it fails with.
validateAudience(v, aud) ==
    CASE aud.kind = "absent" ->
             Error("AudienceMismatch", "missing audience claim")
      [] aud.kind = "string" ->
             IF aud.value[1] = v.audience THEN NoError
             ELSE Error("AudienceMismatch", "invalid audience")
      [] aud.kind = "list" ->
             IF \E k \in 1..Len(aud.value) : aud.value[k] = v.audience
             THEN NoError
             ELSE Error("AudienceMismatch", "not found in audience list")

\* ValidateToken: the error and the identity it returns.
ValidateToken(v, token) ==
    IF ~token.wellFormed
    THEN [err |-> Error("MalformedToken", ""), user |-> <<>>]
    ELSE IF token.key # v.secret
    THEN [err |-> Error("BadSignature", ""), user |-> <<>>]
    ELSE IF token.expired
    THEN [err |-> Error("Expired", ""), user |-> <<>>]
    ELSE IF validateAudience(v, token.aud) # NoError
    THEN [err |-> validateAudience(v, token.aud), user |-> <<>>]
    ELSE [err |-> NoError,
          user |-> <<[Subject |-> token.sub, Audience |-> token.aud.value]>>]

(***************************************************************************)
(* Bytes, base64 (encoding/base64, URLEncoding) and JSON (encoding/json,   *)
(* for a map[string]string) as the OAuth2 handlers use them.               *)
(***************************************************************************)
\* The character that stands for each byte, from 0 to 255: itself when it
\* is printable ASCII, a name otherwise.
ByteChars ==
    <<"x00", "x01", "x02", "x03", "x04", "x05", "x06", "x07",
      "x08", "\t", "\n", "x0B", "\f", "\r", "x0E", "x0F",
      "x10", "x11", "x12", "x13", "x14", "x15", "x16", "x17",
      "x18", "x19", "x1A", "x1B", "x1C", "x1D", "x1E", "x1F",
      " ", "!", "\"", "#", "$", "%", "&", "'",
      "(", ")", "*", "+", ",", "-", ".", "/",
      "0", "1", "2", "3", "4", "5", "6", "7",
      "8", "9", ":", ";", "<", "=", ">", "?",
      "@", "A", "B", "C", "D", "E", "F", "G",
      "H", "I", "J", "K", "L", "M", "N", "O",
      "P", "Q", "R", "S", "T", "U", "V", "W",
      "X", "Y", "Z", "[", "\\", "]", "^", "_",
      Backquote, "a", "b", "c", "d", "e", "f", "g",
      "h", "i", "j", "k", "l", "m", "n", "o",
      "p", "q", "r", "s", "t", "u", "v", "w",
      "x", "y", "z", "{", "|", "}", "~", "x7F",
      "x80", "x81", "x82", "x83", "x84", "x85", "x86", "x87",
      "x88", "x89", "x8A", "x8B", "x8C", "x8D", "x8E", "x8F",
      "x90", "x91", "x92", "x93", "x94", "x95", "x96", "x97",
      "x98", "x99", "x9A", "x9B", "x9C", "x9D", "x9E", "x9F",
      "xA0", "xA1", "xA2", "xA3", "xA4", "xA5", "xA6", "xA7",
      "xA8", "xA9", "xAA", "xAB", "xAC", "xAD", "xAE", "xAF",
      "xB0", "xB1", "xB2", "xB3", "xB4", "xB5", "xB6", "xB7",
      "xB8", "xB9", "xBA", "xBB", "xBC", "xBD", "xBE", "xBF",
      "xC0", "xC1", "xC2", "xC3", "xC4", "xC5", "xC6", "xC7",
      "xC8", "xC9", "xCA", "xCB", "xCC", "xCD", "xCE", "xCF",
      "xD0", "xD1", "xD2", "xD3", "xD4", "xD5", "xD6", "xD7",
      "xD8", "xD9", "xDA", "xDB", "xDC", "xDD", "xDE", "xDF",
      "xE0", "xE1", "xE2", "xE3", "xE4", "xE5", "xE6", "xE7",
      "xE8", "xE9", "xEA", "xEB", "xEC", "xED", "xEE", "xEF",
      "xF0", "xF1", "xF2", "xF3", "xF4", "xF5", "xF6", "xF7",
      "xF8", "xF9", "xFA", "xFB", "xFC", "xFD", "xFE", "xFF">>

\* The byte of a character.
ByteOf(c) == (CHOOSE n \in 1..256 : ByteChars[n] = c) - 1

CharOf(b) == ByteChars[b + 1]

DigitChars == <<"0", "1", "2", "3", "4", "5", "6", "7", "8", "9">>

\* The alphabet of base64.URLEncoding.
encodeURL == UpperLetters \o LowerLetters \o DigitChars \o <<"-", "_">>

RECURSIVE EncodeFrom(_, _)
\* The encoding of the bytes of src from position i on, three at a time,
\* the last group padded with "=".
EncodeFrom(src, i) ==
    LET n == Len(src) - i + 1
        b1 == ByteOf(src[i])
        b2 == ByteOf(src[i + 1])
        b3 == ByteOf(src[i + 2])
    IN  IF n <= 0 THEN <<>>
        ELSE IF n = 1
        THEN <<encodeURL[(b1 \div 4) + 1], encodeURL[(b1 % 4) * 16 + 1], "=", "=">>
        ELSE IF n = 2
        THEN <<encodeURL[(b1 \div 4) + 1],
               encodeURL[(b1 % 4) * 16 + (b2 \div 16) + 1],
               encodeURL[(b2 % 16) * 4 + 1], "=">>
        ELSE <<encodeURL[(b1 \div 4) + 1],
               encodeURL[(b1 % 4) * 16 + (b2 \div 16) + 1],
               encodeURL[(b2 % 16) * 4 + (b3 \div 64) + 1],
               encodeURL[(b3 % 64) + 1]>> \o EncodeFrom(src, i + 3)

\* base64.URLEncoding.EncodeToString
EncodeToString(src) == EncodeFrom(src, 1)

IsEncodeURL(c) == \E k \in 1..64 : encodeURL[k] = c

SextetOf(c) == (CHOOSE k \in 1..64 : encodeURL[k] = c) - 1

\* The bytes of one quantum of four characters, the last one of the input
\* possibly padded.
DecodeQuantum(q) ==
    LET s1 == SextetOf(q[1])
        s2 == SextetOf(q[2])
        s3 == SextetOf(q[3])
        s4 == SextetOf(q[4])
    IN  IF q[3] = "=" THEN <<CharOf(s1 * 4 + (s2 \div 16))>>
        ELSE IF q[4] = "="
        THEN <<CharOf(s1 * 4 + (s2 \div 16)), CharOf((s2 % 16) * 16 + (s3 \div 4))>>
        ELSE <<CharOf(s1 * 4 + (s2 \div 16)), CharOf((s2 % 16) * 16 + (s3 \div 4)),
               CharOf((s3 % 4) * 64 + s4)>>

\* base64.URLEncoding.DecodeString: line breaks are skipped, the rest is
\* quanta of four characters of the alphabet, the last one padded or not.
DecodeString(s) ==
    LET t == SelectSeq(s, LAMBDA c : c \notin {"\r", "\n"})
        quanta == Len(t) \div 4
        q(k) == SubSeq(t, 4 * k - 3, 4 * k)
        wellFormed(k) ==
            /\ IsEncodeURL(q(k)[1])
            /\ IsEncodeURL(q(k)[2])
            /\ \/ IsEncodeURL(q(k)[3]) /\ IsEncodeURL(q(k)[4])
               \/ k = quanta /\ IsEncodeURL(q(k)[3]) /\ q(k)[4] = "="
               \/ k = quanta /\ q(k)[3] = "=" /\ q(k)[4] = "="
    IN  IF Len(t) % 4 # 0 \/ \E k \in 1..quanta : ~wellFormed(k)
        THEN [err |-> TRUE, bytes |-> <<>>]
        ELSE [err |-> FALSE,
              bytes |-> Concat([k \in 1..quanta |-> DecodeQuantum(q(k))])]

HexDigits ==
    <<"0", "1", "2", "3", "4", "5", "6", "7", "8", "9", "a", "b", "c", "d", "e", "f">>

\* What json.Marshal writes for one byte of a string, HTML characters
\* escaped; a byte that is not ASCII is taken as invalid UTF-8.
EscapeChar(c) ==
    LET b == ByteOf(c)
    IN  CASE c = "\"" -> <<"\\", "\"">>
          [] c = "\\" -> <<"\\", "\\">>
          [] c = "\n" -> <<"\\", "n">>
          [] c = "\r" -> <<"\\", "r">>
          [] c = "\t" -> <<"\\", "t">>
          [] c \notin {"\"", "\\", "\n", "\r", "\t"} /\ (b < 32 \/ c \in {"<", ">", "&"}) ->
                 <<"\\", "u", "0", "0", HexDigits[(b \div 16) + 1], HexDigits[(b % 16) + 1]>>
          [] b >= 128 -> <<"\\", "u", "f", "f", "f", "d">>
          [] OTHER -> <<c>>

MarshalString(s) ==
    <<"\"">> \o Concat([i \in 1..Len(s) |-> EscapeChar(s[i])]) \o <<"\"">>

\* json.Marshal of a map[string]string, given as its key/value pairs in the
\* order of the keys, which is the order json.Marshal writes them in.
Marshal(pairs) ==
    LET member(k) == (IF k = 1 THEN <<>> ELSE <<",">>)
                         \o MarshalString(pairs[k][1]) \o <<":">>
                         \o MarshalString(pairs[k][2])
    IN  <<"{">> \o Concat([k \in 1..Len(pairs) |-> member(k)]) \o <<"}">>

JSONSpace == {" ", "\t", "\n", "\r"}

\* The first position from i on that holds no JSON white space.
SkipSpace(s, i) ==
    LET rest == {j \in i..Len(s) : s[j] \notin JSONSpace}
    IN  IF rest = {} THEN Len(s) + 1 ELSE MinOf(rest)

\* The value of a hexadecimal digit, or -1.
HexVal(c) ==
    IF \E k \in 1..16 : HexDigits[k] = ToLowerChar(c)
    THEN (CHOOSE k \in 1..16 : HexDigits[k] = ToLowerChar(c)) - 1
    ELSE -1

\* The UTF-8 bytes of a code point below 65536; a surrogate is written as
\* U+FFFD.
UTF8(cp) ==
    IF cp < 128 THEN <<CharOf(cp)>>
    ELSE IF cp < 2048 THEN <<CharOf(192 + (cp \div 64)), CharOf(128 + (cp % 64))>>
    ELSE IF cp >= 55296 /\ cp < 57344 THEN <<CharOf(239), CharOf(191), CharOf(189)>>
    ELSE <<CharOf(224 + (cp \div 4096)), CharOf(128 + ((cp \div 64) % 64)),
           CharOf(128 + (cp % 64))>>

ParseError == [err |-> TRUE, val |-> <<>>, next |-> 0]

RECURSIVE ScanString(_, _, _)
\* The JSON string whose opening quote is before position i of s, acc being
\* what has been read of it: its value and the position after it.
ScanString(s, i, acc) ==
    IF i > Len(s) THEN ParseError
    ELSE IF s[i] = "\"" THEN [err |-> FALSE, val |-> acc, next |-> i + 1]
    ELSE IF ByteOf(s[i]) < 32 THEN ParseError
    ELSE IF s[i] # "\\" THEN ScanString(s, i + 1, Append(acc, s[i]))
    ELSE IF i + 1 > Len(s) THEN ParseError
    ELSE CASE s[i + 1] \in {"\"", "\\", "/"} -> ScanString(s, i + 2, Append(acc, s[i + 1]))
           [] s[i + 1] = "b" -> ScanString(s, i + 2, Append(acc, CharOf(8)))
           [] s[i + 1] = "f" -> ScanString(s, i + 2, Append(acc, "\f"))
           [] s[i + 1] = "n" -> ScanString(s, i + 2, Append(acc, "\n"))
           [] s[i + 1] = "r" -> ScanString(s, i + 2, Append(acc, "\r"))
           [] s[i + 1] = "t" -> ScanString(s, i + 2, Append(acc, "\t"))
           [] s[i + 1] = "u" ->
                  IF i + 5 > Len(s) \/ \E k \in 2..5 : HexVal(s[i + k]) < 0
                  THEN ParseError
                  ELSE ScanString(s, i + 6,
                           acc \o UTF8(HexVal(s[i + 2]) * 4096 + HexVal(s[i + 3]) * 256
                                           + HexVal(s[i + 4]) * 16 + HexVal(s[i + 5])))
           [] OTHER -> ParseError

null == <<"n", "u", "l", "l">>

\* A string or null at position i of s, the only values a map[string]string
\* is unmarshalled from without error; null leaves the empty string.
ScanStringValue(s, i) ==
    IF i <= Len(s) /\ s[i] = "\"" THEN ScanString(s, i + 1, <<>>)
    ELSE IF OccursAt(s, null, i) THEN [err |-> FALSE, val |-> <<>>, next |-> i + 4]
    ELSE ParseError

RECURSIVE ScanMembers(_, _, _)
\* The members of a JSON object from position i of s on, where a key is
\* due, m being the pairs read so far: the pairs and the position after "}".
ScanMembers(s, i, m) ==
    LET k == SkipSpace(s, i)
        key == IF k <= Len(s) /\ s[k] = "\"" THEN ScanString(s, k + 1, <<>>)
               ELSE ParseError
        colon == SkipSpace(s, key.next)
        value == ScanStringValue(s, SkipSpace(s, colon + 1))
        after == SkipSpace(s, value.next)
    IN  IF key.err \/ colon > Len(s) THEN ParseError
        ELSE IF s[colon] # ":" \/ value.err \/ after > Len(s) THEN ParseError
        ELSE IF s[after] = ","
        THEN ScanMembers(s, after + 1, Append(m, <<key.val, value.val>>))
        ELSE IF s[after] = "}"
        THEN [err |-> FALSE, val |-> Append(m, <<key.val, value.val>>), next |-> after + 1]
        ELSE ParseError

\* json.Unmarshal(data, &stateData) for stateData a nil map[string]string:
\* the error, and the pairs put in the map, a later one replacing an
\* earlier one of the same key.
Unmarshal(data) ==
    LET i == SkipSpace(data, 1)
        open == SkipSpace(data, i + 1)
        object ==
            IF i > Len(data) THEN ParseError
            ELSE IF OccursAt(data, null, i)
            THEN [err |-> FALSE, val |-> <<>>, next |-> i + 4]
            ELSE IF data[i] # "{" THEN ParseError
            ELSE IF open <= Len(data) /\ data[open] = "}"
            THEN [err |-> FALSE, val |-> <<>>, next |-> open + 1]
            ELSE ScanMembers(data, i + 1, <<>>)
    IN  IF object.err \/ SkipSpace(data, object.next) <= Len(data)
        THEN [err |-> TRUE, pairs |-> <<>>]
        ELSE [err |-> FALSE, pairs |-> object.val]

\* stateData[key]: whether the key is in the map, and its value.
MapIndex(pairs, key) ==
    LET at == {k \in 1..Len(pairs) : pairs[k][1] = key}
    IN  IF at = {} THEN [ok |-> FALSE, val |-> <<>>]
        ELSE [ok |-> TRUE, val |-> pairs[CHOOSE k \in at : \A j \in at : j <= k][2]]

(***************************************************************************)
(* URLs as the handlers and their clients read them (net/url, net/http).   *)
(***************************************************************************)
\* The position of the first c in s, or 0.
IndexChar(s, c) ==
    LET at == {i \in 1..Len(s) : s[i] = c}
    IN  IF at = {} THEN 0 ELSE MinOf(at)

\* s up to its first c, or all of s.
Before(s, c) == IF IndexChar(s, c) = 0 THEN s ELSE SubSeq(s, 1, IndexChar(s, c) - 1)

\* s after its first c, or nothing.
After(s, c) == IF IndexChar(s, c) = 0 THEN <<>> ELSE Suffix(s, IndexChar(s, c) + 1)

RECURSIVE UnescapeFrom(_, _)
\* url.QueryUnescape from position i on: "+" is a space and %XX a byte.
UnescapeFrom(s, i) ==
    IF i > Len(s) THEN [err |-> FALSE, val |-> <<>>]
    ELSE IF s[i] = "%"
    THEN IF i + 2 > Len(s) \/ HexVal(s[i + 1]) < 0 \/ HexVal(s[i + 2]) < 0
         THEN [err |-> TRUE, val |-> <<>>]
         ELSE LET rest == UnescapeFrom(s, i + 3)
              IN  [err |-> rest.err,
                   val |-> <<CharOf(HexVal(s[i + 1]) * 16 + HexVal(s[i + 2]))>> \o rest.val]
    ELSE LET rest == UnescapeFrom(s, i + 1)
         IN  [err |-> rest.err,
              val |-> <<IF s[i] = "+" THEN " " ELSE s[i]>> \o rest.val]

QueryUnescape(s) == UnescapeFrom(s, 1)

\* url.ParseQuery: the key/value pairs of a query, in order; a pair that is
\* empty, holds a semicolon or does not unescape is left out.
ParseQuery(query) ==
    LET pairs == Split(query, "&")
        good(p) ==
            /\ p # <<>>
            /\ ~ContainsChar(p, ";")
            /\ ~QueryUnescape(Before(p, "=")).err
            /\ ~QueryUnescape(After(p, "=")).err
        kept == SelectSeq(pairs, good)
    IN  [k \in 1..Len(kept) |->
            <<QueryUnescape(Before(kept[k], "=")).val,
              QueryUnescape(After(kept[k], "=")).val>>]

\* url.Values.Get: the first value of the key, or the empty string.
Get(values, key) ==
    LET at == {k \in 1..Len(values) : values[k][1] = key}
    IN  IF at = {} THEN <<>> ELSE values[MinOf(at)][2]

SchemeChars ==
    {UpperLetters[i] : i \in 1..26} \cup {LowerLetters[i] : i \in 1..26}
        \cup Digits \cup {"+", "-", "."}

\* Whether url.Parse finds a scheme: a letter, then scheme characters, then
\* a colon.
HasScheme(rawURL) ==
    LET colon == IndexChar(rawURL, ":")
    IN  /\ colon > 1
        /\ rawURL[1] \notin Digits \cup {"+", "-", "."}
        /\ \A i \in 1..(colon - 1) : rawURL[i] \in SchemeChars

\* Whether url.ParseQuery returns an error: a pair holds a semicolon or
\* does not unescape.
ParseQueryFails(query) ==
    \E k \in 1..Len(Split(query, "&")) :
        LET p == Split(query, "&")[k]
        IN  /\ p # <<>>
            /\ \/ ContainsChar(p, ";")
               \/ QueryUnescape(Before(p, "=")).err
               \/ QueryUnescape(After(p, "=")).err

\* url.Values.Set: the key has the one value.
Set(values, key, value) ==
    SelectSeq(values, LAMBDA p : p[1] # key) \o << <<key, value>> >>

\* url.QueryEscape of one byte: letters, digits, "-", "_", "." and "~" stay,
\* a space is written "+", any other byte %XX.
EscapeByte(c) ==
    IF c \in (SchemeChars \ {"+"}) \cup {"_", "~"} THEN <<c>>
    ELSE IF c = " " THEN <<"+">>
    ELSE <<"%", ToUpperChar(HexDigits[(ByteOf(c) \div 16) + 1]),
           ToUpperChar(HexDigits[(ByteOf(c) % 16) + 1])>>

QueryEscape(s) == Concat([i \in 1..Len(s) |-> EscapeByte(s[i])])

RECURSIVE Less(_, _)
\* a < b for Go strings: the order of their bytes.
Less(a, b) ==
    IF b = <<>> THEN FALSE
    ELSE IF a = <<>> THEN TRUE
    ELSE IF a[1] = b[1] THEN Less(Tail(a), Tail(b))
    ELSE ByteOf(a[1]) < ByteOf(b[1])

\* url.Values.Encode: key=value pairs, escaped, joined by "&", in the order
\* of the keys, the values of a key in their own order.
Encode(values) ==
    LET keys == {values[k][1] : k \in 1..Len(values)}
        rank(key) == Cardinality({x \in keys : Less(x, key)})
        sorted == [n \in 1..Cardinality(keys) |-> CHOOSE key \in keys : rank(key) = n - 1]
        pairs == Concat([n \in 1..Cardinality(keys) |->
                            SelectSeq(values, LAMBDA p : p[1] = sorted[n])])
        text(k) == (IF k = 1 THEN <<>> ELSE <<"&">>)
                       \o QueryEscape(pairs[k][1]) \o <<"=">> \o QueryEscape(pairs[k][2])
    IN  Concat([k \in 1..Len(pairs) |-> text(k)])

\* The directory of the path the callback is served at, /oauth/callback.
CallbackDir == <<"/", "o", "a", "u", "t", "h", "/">>

\* The Location header that http.Redirect writes for a URL of ASCII
\* characters: the URL itself when it has a scheme or a host, otherwise the
\* URL made relative to the directory of the request (its path is taken to
\* need no cleaning).
Location(rawURL) ==
    IF HasScheme(rawURL) \/ OccursAt(rawURL, <<"/", "/">>, 1) THEN rawURL
    ELSE IF rawURL # <<>> /\ rawURL[1] = "/" THEN rawURL
    ELSE CallbackDir \o rawURL

\* What the client a Location leads to is handed: the URL up to its query,
\* and the code and state parameters of the query.
ClientView(location) ==
    LET values == ParseQuery(After(Before(location, "#"), "?"))
    IN  [target |-> Before(Before(location, "#"), "?"),
         code |-> Get(values, <<"c", "o", "d", "e">>),
         state |-> Get(values, <<"s", "t", "a", "t", "e">>)]

(***************************************************************************)
(* The OAuth2 handlers (internal/oauth/metadata.go).  A request is the     *)
(* record of its parameters, an absent parameter being the empty string;   *)
(* what a handler sends to the provider is the record of the parameters    *)
(* the provider reads, the oauth2 library and net/url writing and reading  *)
(* them as url.Values.                                                     *)
(***************************************************************************)
\* NewOAuth2Handler: h.config.RedirectURI is the configured URI, empty when
\* none is, and h.oauth2Config.RedirectURL starts empty.
NewOAuth2Handler(cfg) == [RedirectURI |-> cfg.RedirectURI, RedirectURL |-> <<>>]

\* The redirect URI a handler chooses for a request: the fixed URI if one is
\* configured, the client's otherwise.
redirectURI(h, req) ==
    IF h.RedirectURI # <<>> THEN h.RedirectURI ELSE req.redirect_uri

\* The handler once h.oauth2Config.RedirectURL is assigned for a request.
SetRedirectURL(h, req) == [h EXCEPT !.RedirectURL = redirectURI(h, req)]

\* The state HandleAuthorize encodes the client's state and redirect URI in.
encodedState(req) ==
    EncodeToString(Marshal(<< <<<<"r", "e", "d", "i", "r", "e", "c", "t">>, req.redirect_uri>>, <<<<"s", "t", "a", "t", "e">>, req.state>> >>))

\* The parameters of the authorization URL that HandleAuthorize redirects
\* to, h.oauth2Config.RedirectURL being what it is when AuthCodeURL reads it.
AuthCodeURL(h, req) ==
    [redirect_uri |-> h.RedirectURL,
     state |-> IF req.code_challenge # <<>> /\ h.RedirectURI # <<>>
               THEN encodedState(req) ELSE req.state,
     code_challenge |-> req.code_challenge,
     code_challenge_method |->
         IF req.code_challenge # <<>> THEN req.code_challenge_method ELSE <<>>]

\* HandleAuthorize when no other request is served meanwhile.
HandleAuthorize(h, req) == AuthCodeURL(SetRedirectURL(h, req), req)

Response(status, location, body) ==
    [status |-> status, location |-> location, body |-> body]

showSuccessPage == Response(200, <<>>, "Authentication Successful!")

\* fmt.Sprintf("%s?code=%s&state=%s", originalRedirectURI, code, originalState)
proxyURL(originalRedirectURI, code, originalState) ==
    originalRedirectURI \o <<"?", "c", "o", "d", "e", "=">> \o code \o <<"&", "s", "t", "a", "t", "e", "=">> \o originalState

\* The structured state of a callback: whether it decodes, and the client's
\* state and redirect URI it holds.
decodeState(state) ==
    LET jsonData == DecodeString(state)
        stateData == Unmarshal(jsonData.bytes)
        originalState == MapIndex(stateData.pairs, <<"s", "t", "a", "t", "e">>)
        originalRedirectURI == MapIndex(stateData.pairs, <<"r", "e", "d", "i", "r", "e", "c", "t">>)
    IN  IF jsonData.err THEN [ok |-> FALSE, state |-> <<>>, redirect |-> <<>>]
        ELSE IF stateData.err THEN [ok |-> FALSE, state |-> <<>>, redirect |-> <<>>]
        ELSE IF ~originalState.ok \/ ~originalRedirectURI.ok
        THEN [ok |-> FALSE, state |-> <<>>, redirect |-> <<>>]
        ELSE [ok |-> TRUE, state |-> originalState.val,
              redirect |-> originalRedirectURI.val]

\* strings.SplitN(s, sep, 2) for a one-character sep that s holds
SplitN2(s, sep) == <<Before(s, sep), After(s, sep)>>

\* A variant of HandleCallback that looks at the error parameter only when
\* there is no code.
HandleCallbackCodeFirst(h, req) ==
    IF req.code = <<>> THEN Response(400, <<>>, "No authorization code received")
    ELSE IF h.RedirectURI = <<>> THEN showSuccessPage
    ELSE IF decodeState(req.state).ok
    THEN Response(302,
                  Location(proxyURL(decodeState(req.state).redirect, req.code,
                                    decodeState(req.state).state)),
                  "")
    ELSE showSuccessPage

HandleCallback(h, req) ==
    IF req.error # <<>> THEN Response(400, <<>>, "Authorization failed")
    ELSE IF req.code = <<>> THEN Response(400, <<>>, "No authorization code received")
    ELSE IF h.RedirectURI = <<>> THEN showSuccessPage
    ELSE LET stateData == decodeState(req.state)
             parts == SplitN2(req.state, "|")
         IN  IF stateData.ok
             THEN Response(302,
                           Location(proxyURL(stateData.redirect, req.code,
                                             stateData.state)),
                           "")
             ELSE IF ~ContainsChar(req.state, "|") THEN showSuccessPage
             ELSE IF ContainsChar(parts[1], "|") \/ ContainsChar(parts[2], "|")
             THEN showSuccessPage
             ELSE Response(302, Location(proxyURL(parts[2], req.code, parts[1])), "")

authorization_code == <<"a", "u", "t", "h", "o", "r", "i", "z", "a", "t", "i", "o", "n", "_", "c", "o", "d", "e">>

\* The response HandleToken gives before it touches h.oauth2Config, if any.
\* A variant of TokenRefusal that accepts every grant type.
TokenRefusalCodeOnly(req) ==
    IF req.code = <<>> THEN <<Response(400, <<>>, "Missing authorization code")>>
    ELSE <<>>

TokenRefusal(req) ==
    IF req.code = <<>> THEN <<Response(400, <<>>, "Missing authorization code")>>
    ELSE IF req.grant_type # authorization_code
    THEN <<Response(400, <<>>, "Unsupported grant type")>>
    ELSE <<>>

\* The parameters of the token request that Exchange sends, the
\* pkceTransport adding the verifier, h.oauth2Config.RedirectURL being what
\* it is when Exchange reads it.
Exchange(h, req) ==
    [grant_type |-> authorization_code,
     code |-> req.code,
     redirect_uri |-> h.RedirectURL,
     code_verifier |-> req.code_verifier]

\* HandleToken when no other request is served meanwhile: what it sends to
\* the provider, if anything.
HandleToken(h, req) ==
    IF TokenRefusal(req) # <<>> THEN <<>>
    ELSE <<Exchange(SetRedirectURL(h, req), req)>>

\* The response of HandleToken once the provider has answered.
TokenResponse(ok) ==
    IF ok THEN Response(200, <<>>, "access_token")
    ELSE Response(500, <<>>, "Token exchange failed")

code_verifier == <<"c", "o", "d", "e", "_", "v", "e", "r", "i", "f", "i", "e", "r">>

\* The request that Exchange of the oauth2 library hands to the HTTP client
\* for the code of a token request: a POST to the token URL whose body holds
\* grant_type, code, redirect_uri unless h.oauth2Config.RedirectURL is
\* empty, and client_id when the client is named in the body and not in the
\* Authorization header.
TokenPost(h, req, tokenPath, inParams) ==
    [Method |-> "POST",
     Path |-> tokenPath,
     Body |-> Encode(<< <<<<"g", "r", "a", "n", "t", "_", "t", "y", "p", "e">>, authorization_code>>, <<<<"c", "o", "d", "e">>, req.code>> >>
                 \o (IF h.RedirectURL # <<>>
                     THEN << <<<<"r", "e", "d", "i", "r", "e", "c", "t", "_", "u", "r", "i">>, h.RedirectURL>> >> ELSE <<>>)
                 \o (IF inParams THEN << <<<<"c", "l", "i", "e", "n", "t", "_", "i", "d">>, <<"c", "i", "d">>>> >> ELSE <<>>))]

\* A variant of RoundTrip that sets the verifier on every POST.
RoundTripEveryPost(p, req) ==
    IF req.Method = "POST"
    THEN IF ParseQueryFails(req.Body) THEN [err |-> TRUE, sent |-> <<>>]
         ELSE [err |-> FALSE,
               sent |-> <<[req EXCEPT !.Body =
                              Encode(Set(ParseQuery(req.Body), code_verifier, p.codeVerifier))]>>]
    ELSE [err |-> FALSE, sent |-> <<req>>]

\* pkceTransport.RoundTrip: the error it returns and the request it hands to
\* the base transport, if any.
RoundTrip(p, req) ==
    IF req.Method = "POST" /\ Contains(req.Path, <<"/", "t", "o", "k", "e", "n">>)
    THEN IF ParseQueryFails(req.Body) THEN [err |-> TRUE, sent |-> <<>>]
         ELSE LET values == ParseQuery(req.Body)
                  withVerifier ==
                      IF Get(values, code_verifier) = <<>> /\ p.codeVerifier # <<>>
                      THEN Set(values, code_verifier, p.codeVerifier)
                      ELSE values
              IN  [err |-> FALSE, sent |-> <<[req EXCEPT !.Body = Encode(withVerifier)]>>]
    ELSE [err |-> FALSE, sent |-> <<req>>]

\* The HTTP client HandleToken gives Exchange: the pkceTransport when the
\* token request carries a verifier, the default client otherwise.
Transport(req, post) ==
    IF req.code_verifier # <<>> THEN RoundTrip([codeVerifier |-> req.code_verifier], post)
    ELSE [err |-> FALSE, sent |-> <<post>>]

(***************************************************************************)
(* The errors of a connection (NewClient, sanitizeConnectionError).        *)
(***************************************************************************)
RECURSIVE ReplaceAllFrom(_, _, _, _)

\* strings.ReplaceAll from position i on: the occurrences of old that do not
\* overlap, from the left.
ReplaceAllFrom(s, old, new, i) ==
    IF i > Len(s) THEN <<>>
    ELSE IF OccursAt(s, old, i) THEN new \o ReplaceAllFrom(s, old, new, i + Len(old))
    ELSE <<s[i]>> \o ReplaceAllFrom(s, old, new, i + 1)

\* strings.ReplaceAll: an empty old matches before every character and at
\* the end.
ReplaceAll(s, old, new) ==
    IF old = <<>> THEN Concat([i \in 1..Len(s) |-> new \o <<s[i]>>]) \o new
    ELSE ReplaceAllFrom(s, old, new, 1)

PASSWORD_REDACTED == <<"[", "P", "A", "S", "S", "W", "O", "R", "D", "_", "R", "E", "D", "A", "C", "T", "E", "D", "]">>

\* A variant of sanitizeConnectionError that replaces the plain password
\* only.
sanitizePlainPassword(errStr, password) ==
    IF password # <<>> THEN ReplaceAll(errStr, password, PASSWORD_REDACTED)
    ELSE errStr

\* sanitizeConnectionError for an error that is not nil: the message of the
\* error it returns.
sanitizeConnectionError(errStr, password) ==
    IF password # <<>>
    THEN ReplaceAll(ReplaceAll(errStr, QueryEscape(password), PASSWORD_REDACTED),
                    password, PASSWORD_REDACTED)
    ELSE errStr

\* The error NewClient returns when sql.Open (opened false) or db.Ping
\* fails with the message errStr.
NewClient(password, opened, errStr) ==
    Error(IF opened THEN "failed to ping Trino" ELSE "failed to connect to Trino",
          sanitizeConnectionError(errStr, password))

(***************************************************************************)
(* The calls to the provider and the time they may take, in seconds.  A    *)
(* call holds the deadline of its context and the Timeout of its           *)
(* http.Client; as in Go, 0 stands for none.                               *)
(***************************************************************************)
\* The call of oidc.NewProvider in discoverOIDCEndpoints: a context with a
\* timeout of 10 seconds and a client with a Timeout of 10 seconds.
discoverOIDCEndpoints ==
    [to |-> "discovery", ctx |-> 10, client |-> "httpClient", Timeout |-> 10]

\* The call of h.oauth2Config.Exchange in HandleToken: context.Background()
\* and, for a request with a verifier, a client that has the pkceTransport
\* over http.DefaultTransport and no Timeout, and otherwise the
\* http.DefaultClient of the oauth2 library, which has none either.
ExchangeCall(req) ==
    [to |-> "token", ctx |-> 0,
     client |-> IF req.code_verifier # <<>> THEN "pkceTransport" ELSE "DefaultClient",
     Timeout |-> 0]

\* The seconds after which the call is ended if the provider has not
\* answered; 0 if nothing ends it.
Deadline(call) ==
    IF call.ctx = 0 THEN call.Timeout
    ELSE IF call.Timeout = 0 THEN call.ctx
    ELSE MinOf({call.ctx, call.Timeout})

\* NewOAuth2ConfigFromTrinoConfig: the fields of the configuration that the
\* handlers are given; OAuthMode is not among them.
NewOAuth2ConfigFromTrinoConfig(trinoConfig) ==
    [Enabled |-> trinoConfig.OAuthEnabled,
     Provider |-> trinoConfig.OAuthProvider,
     RedirectURI |-> trinoConfig.OAuthRedirectURI,
     Audience |-> trinoConfig.OIDCAudience]

\* The values of the JSON documents of a registration: null, a text, a list.
JSONNull == [type |-> "null"]

JSONString(text) == [type |-> "string", val |-> text]

JSONArray(items) == [type |-> "array", val |-> items]

\* json.NewDecoder(r.Body).Decode(&regRequest) for a map[string]interface{}:
\* an object gives its members, null gives the nil map, any other document
\* and a body that is no document give an error.
Decode(body) ==
    IF body.kind = "object" THEN [err |-> FALSE, map |-> body.members]
    ELSE IF body.kind = "null" THEN [err |-> FALSE, map |-> {}]
    ELSE [err |-> TRUE, map |-> {}]

\* regRequest[key]: nil, which is encoded as null, for a key that is absent.
MapValue(map, key) ==
    IF \E m \in map : m[1] = key THEN (CHOOSE m \in map : m[1] = key)[2]
    ELSE JSONNull

\* The document of a registration response but for its redirect_uris;
\* client_id_issued_at, the reading of the clock, is left out.
RegistrationResponse(h, regRequest) ==
    [client_id |-> JSONString(h.ClientID),
     client_secret |-> JSONString(<<>>),
     grant_types |-> JSONArray(<<<<"a", "u", "t", "h", "o", "r", "i", "z", "a", "t", "i", "o", "n", "_", "c", "o", "d", "e">>, <<"r", "e", "f", "r", "e", "s", "h", "_", "t", "o", "k", "e", "n">>>>),
     response_types |-> JSONArray(<<<<"c", "o", "d", "e">>>>),
     token_endpoint_auth_method |-> JSONString(<<"n", "o", "n", "e">>),
     application_type |-> JSONString(<<"n", "a", "t", "i", "v", "e">>),
     client_name |-> MapValue(regRequest, "client_name")]

\* A variant of HandleRegister that always returns the caller's
\* redirect_uris.
HandleRegisterEcho(h, req) ==
    LET regRequest == Decode(req.body)
    IN  IF regRequest.err THEN Response(400, <<>>, "Invalid request body")
        ELSE Response(201, <<>>,
                      [field \in {"redirect_uris"} |->
                           MapValue(regRequest.map, "redirect_uris")]
                          @@ RegistrationResponse(h, regRequest.map))

\* HandleRegister on a POST: h holds the ClientID, the ClientSecret and the
\* RedirectURI of h.config.
HandleRegister(h, req) ==
    LET regRequest == Decode(req.body)
    IN  IF regRequest.err THEN Response(400, <<>>, "Invalid request body")
        ELSE Response(201, <<>>,
                      [field \in {"redirect_uris"} |->
                           IF h.RedirectURI # <<>> THEN JSONArray(<<h.RedirectURI>>)
                           ELSE MapValue(regRequest.map, "redirect_uris")]
                          @@ RegistrationResponse(h, regRequest.map))

\* The five read-only keywords in several letter cases, an identifier, a
\* write keyword, white space and the semicolon.
KeywordTokens ==
    { <<"s", "e", "l", "e", "c", "t">>, <<"S", "H", "O", "W">>,
      <<"D", "e", "s", "c", "r", "i", "b", "e">>,
      <<"e", "x", "p", "l", "a", "i", "n">>, <<"W", "i", "t", "h">>,
      <<"i", "d">>, <<"s", "e", "t">>, <<" ">>, <<"\t">>, <<";">> }

\* Every statement of at most maxWords of these tokens.
KeywordQueries(maxWords) ==
    UNION { {Concat(ts) : ts \in [1..n -> KeywordTokens]} : n \in 0..maxWords }


(***************************************************************************)
(* The values of a component's variables in the runs of another one.       *)
(***************************************************************************)
ClassifierIdle ==
    /\ sqlText = <<>>
    /\ verdict = "pending"

ClientIdle ==
    /\ config = NoClient
    /\ engineLog = <<>>
    /\ last = NoCall

HMACIdle ==
    /\ validator = NewValidator
    /\ validation = NoValidation

OAuthIdle ==
    /\ handler = [RedirectURI |-> <<>>, RedirectURL |-> <<>>]
    /\ inflight = [slot \in {"g1", "g2"} |-> [pc |-> "idle", req |-> <<>>]]
    /\ provider = {}
    /\ response = [handler |-> "none", req |-> <<>>, status |-> 0,
                   location |-> <<>>, body |-> ""]

(***************************************************************************)
(* The classifier applied to one query.                                    *)
(***************************************************************************)
InitClassifier ==
    /\ sqlText \in Queries(MaxTokens)
    /\ verdict = "pending"
    /\ ClientIdle
    /\ HMACIdle
    /\ OAuthIdle

Classify ==
    /\ verdict = "pending"
    /\ verdict' = IF isReadOnlyQuery(sqlText) THEN "readonly" ELSE "rejected"
    /\ UNCHANGED <<sqlText, clientVars, hmacVars, oauthVars>>

NextClassifier == Classify

SpecClassifier == InitClassifier /\ [][NextClassifier]_vars

(***************************************************************************)
(* The classifier applied to one statement made of keywords.               *)
(***************************************************************************)
InitKeyword ==
    /\ sqlText \in KeywordQueries(MaxWords)
    /\ verdict = "pending"
    /\ ClientIdle
    /\ HMACIdle
    /\ OAuthIdle

SpecKeyword == InitKeyword /\ [][NextClassifier]_vars

(***************************************************************************)
(* The classifier applied to one statement that begins with select and     *)
(* goes on with quotes, comment markers, line ends, a write keyword and    *)
(* semicolons.                                                             *)
(***************************************************************************)
StatementPieces ==
    { <<" ">>, <<"x">>, <<"s", "e", "t">>, <<";">>, <<"'">>, <<"\"">>,
      <<"-", "-">>, <<"\n">>, <<"/", "*">>, <<"*", "/">> }

\* select followed by at most maxPieces of these pieces.
Statements(maxPieces) ==
    UNION { {<<"s", "e", "l", "e", "c", "t">> \o Concat(ps) : ps \in [1..n -> StatementPieces]} :
                n \in 0..maxPieces }

InitLexing ==
    /\ sqlText \in Statements(MaxPieces)
    /\ verdict = "pending"
    /\ ClientIdle
    /\ HMACIdle
    /\ OAuthIdle

SpecLexing == InitLexing /\ [][NextClassifier]_vars

(***************************************************************************)
(* Calls of the client's methods.                                          *)
(***************************************************************************)
\* A call returns: its outcome is recorded, with the rows the engine had to
\* answer, and what it sent reaches the engine.
Return(op, args, answer, r) ==
    /\ last' = [op |-> op, args |-> args, answer |-> answer.rows,
                err |-> r.err, out |-> r.out,
                sent |-> r.sent, identity |-> r.identity]
    /\ engineLog' = engineLog \o r.sent
    /\ UNCHANGED <<config, classifierVars, hmacVars, oauthVars>>

CallExecuteQuery(more, queries, answers) ==
    /\ more
    /\ \E q \in queries, a \in answers :
           Return("ExecuteQuery", <<q>>, a, ExecuteQuery(config, q, a))

CallExplainQuery(more, queries, formats, answers) ==
    /\ more
    /\ \E q \in queries, f \in formats, a \in answers :
           Return("ExplainQuery", <<q, f>>, a, ExplainQuery(config, q, f, a))

CallListCatalogs(more, answers) ==
    /\ more
    /\ \E a \in answers :
           Return("ListCatalogs", <<>>, a, ListCatalogs(config, a))

CallListSchemas(more, catalogs, answers) ==
    /\ more
    /\ \E c \in catalogs, a \in answers :
           Return("ListSchemas", <<c>>, a, ListSchemas(config, c, a))

CallListTables(more, catalogs, schemas, answers) ==
    /\ more
    /\ \E c \in catalogs, s \in schemas, a \in answers :
           Return("ListTables", <<c, s>>, a, ListTables(config, c, s, a))

CallGetTableSchema(more, catalogs, schemas, tables, answers) ==
    /\ more
    /\ \E c \in catalogs, s \in schemas, t \in tables, a \in answers :
           Return("GetTableSchema", <<c, s, t>>, a, GetTableSchema(config, c, s, t, a))

(***************************************************************************)
(* SpecClient: runs of calls on one client, write queries allowed or not.  *)
(***************************************************************************)
ClientQueries ==
    { <<"s", "e", "l", "e", "c", "t", " ", "x">>,
      <<"d", "r", "o", "p", " ", "x">>,
      <<"s", "e", "l", "e", "c", "t", ";", "s", "e", "t", " ", "x">> }

InitClient ==
    /\ config \in {ClientConfig(w, <<>>, <<>>, t) :
                       w \in BOOLEAN,
                       t \in {<<>>, <<Dotted(<<CatalogC, SchemaS1, TableT1>>)>>}}
    /\ engineLog = <<>>
    /\ last = NoCall
    /\ ClassifierIdle
    /\ HMACIdle
    /\ OAuthIdle

MoreCalls == Len(engineLog) < MaxLog

OneAnswer == {[ok |-> TRUE, rows |-> <<TableT1>>]}

NextClient ==
    \/ CallExecuteQuery(MoreCalls, ClientQueries, OneAnswer)
    \/ CallExplainQuery(MoreCalls, ClientQueries,
                        {<<>>, <<"i", "o">>, <<"b", "a", "d">>}, OneAnswer)
    \/ CallListCatalogs(MoreCalls, OneAnswer)
    \/ CallListSchemas(MoreCalls, {<<>>}, OneAnswer)
    \/ CallListTables(MoreCalls, {<<>>}, {<<>>}, OneAnswer)
    \/ CallGetTableSchema(MoreCalls, {<<>>}, {<<>>}, {TableT1, TableT2}, OneAnswer)

SpecClient == InitClient /\ [][NextClient]_vars

(***************************************************************************)
(* SpecAccess: one metadata call on a client with allowlists.              *)
(***************************************************************************)
AccessConfigs ==
    {ClientConfig(FALSE, c, s, t) :
        c \in {<<>>, <<CatalogC>>},
        s \in {<<>>, <<Dotted(<<CatalogC, SchemaS1>>)>>},
        t \in {<<>>, <<Dotted(<<CatalogC, SchemaS1, TableT1>>)>>,
               <<<<"C", ".", "S", "1", ".", "T", "1">>,
                 Dotted(<<CatalogD, SchemaS2, TableT2>>)>>}}

InitAccess ==
    /\ config \in AccessConfigs
    /\ engineLog = <<>>
    /\ last = NoCall
    /\ ClassifierIdle
    /\ HMACIdle
    /\ OAuthIdle

FirstCall == last.op = "none"

CatalogArgs == {<<>>, CatalogC, CatalogD}

SchemaArgs == {<<>>, SchemaS1, SchemaS2}

TableArgs ==
    {TableT1, TableT2,
     Dotted(<<SchemaS1, TableT1>>), Dotted(<<SchemaS2, TableT2>>),
     Dotted(<<CatalogC, SchemaS1, TableT1>>),
     Dotted(<<CatalogC, SchemaS1, TableT2>>),
     <<"C", ".", "s", "1", ".", "T", "1">>}

NextAccess ==
    \/ CallListCatalogs(FirstCall, Answers({<<CatalogC, CatalogD>>, <<CatalogD>>}))
    \/ CallListSchemas(FirstCall, CatalogArgs,
                       Answers({<<SchemaS1, SchemaS2>>, <<SchemaS2>>}))
    \/ CallListTables(FirstCall, CatalogArgs, SchemaArgs,
                      Answers({<<TableT1, TableT2>>, <<TableT2, TableT1, TableT2>>}))
    \/ CallGetTableSchema(FirstCall, CatalogArgs, SchemaArgs, TableArgs,
                          Answers({<<TableT1>>}))

SpecAccess == InitAccess /\ [][NextAccess]_vars

(***************************************************************************)
(* SpecFilter: one access predicate or one filter applied on a client with *)
(* allowlists.                                                             *)
(***************************************************************************)
FilterConfigs ==
    {ClientConfig(FALSE, c, s, t) :
        c \in {<<>>, <<CatalogC>>, << <<"D">>, CatalogC >>},
        s \in {<<>>, <<Dotted(<<CatalogC, SchemaS1>>)>>,
               << <<"C", ".", "S", "2">>, Dotted(<<CatalogD, SchemaS1>>) >>},
        t \in {<<>>, <<Dotted(<<CatalogC, SchemaS1, TableT1>>)>>,
               << <<"C", ".", "S", "1", ".", "T", "1">>,
                  Dotted(<<CatalogD, SchemaS2, TableT2>>) >>}}

CatalogNames == {CatalogC, <<"C">>, CatalogD}

SchemaNames == {SchemaS1, <<"S", "1">>, SchemaS2}

TableNames == {TableT1, <<"T", "1">>, TableT2}

\* The lists of at most MaxNames of the names.
NameLists(names) == UNION {[1..n -> names] : n \in 0..MaxNames}

InitFilter ==
    /\ config \in FilterConfigs
    /\ engineLog = <<>>
    /\ last = NoCall
    /\ ClassifierIdle
    /\ HMACIdle
    /\ OAuthIdle

\* A predicate or a filter returns: nothing is sent to the engine.
Returned(op, args, out) ==
    Return(op, args, [ok |-> TRUE, rows |-> <<>>], Outcome(NoError, out, <<>>))

CallIsCatalogAllowed ==
    /\ FirstCall
    /\ \E c \in CatalogNames :
           Returned("isCatalogAllowed", <<c>>, <<isCatalogAllowed(config, c)>>)

CallIsSchemaAllowed ==
    /\ FirstCall
    /\ \E c \in CatalogNames, n \in SchemaNames :
           Returned("isSchemaAllowed", <<c, n>>, <<isSchemaAllowed(config, c, n)>>)

CallIsTableAllowed ==
    /\ FirstCall
    /\ \E c \in CatalogNames, n \in SchemaNames, t \in TableNames :
           Returned("isTableAllowed", <<c, n, t>>, <<isTableAllowed(config, c, n, t)>>)

CallFilterCatalogs ==
    /\ FirstCall
    /\ \E catalogs \in NameLists(CatalogNames) :
           Returned("filterCatalogs", <<catalogs>>, filterCatalogs(config, catalogs))

CallFilterSchemas ==
    /\ FirstCall
    /\ \E schemas \in NameLists(SchemaNames), c \in CatalogNames :
           Returned("filterSchemas", <<schemas, c>>, filterSchemas(config, schemas, c))

CallFilterTables ==
    /\ FirstCall
    /\ \E tables \in NameLists(TableNames), c \in CatalogNames, n \in SchemaNames :
           Returned("filterTables", <<tables, c, n>>,
                    filterTables(config, tables, c, n))

NextFilter ==
    \/ CallIsCatalogAllowed
    \/ CallIsSchemaAllowed
    \/ CallIsTableAllowed
    \/ CallFilterCatalogs
    \/ CallFilterSchemas
    \/ CallFilterTables

SpecFilter == InitFilter /\ [][NextFilter]_vars

(***************************************************************************)
(* SpecHMAC: a validator is initialized, then validates tokens.            *)
(***************************************************************************)
Secrets == {"k1", "k2"}

Audiences == {"svc", "SVC", "other"}

AudienceClaims ==
    {AbsentAudience} \cup {StringAudience(a) : a \in Audiences}
        \cup UNION { {ListAudience(as) : as \in [1..n -> Audiences]} :
                       n \in 0..MaxAudiences }

JWTs ==
    [wellFormed : BOOLEAN, key : Secrets, expired : BOOLEAN,
     aud : AudienceClaims, sub : {"test-user"}]

InitHMAC ==
    /\ HMACIdle
    /\ ClassifierIdle
    /\ ClientIdle
    /\ OAuthIdle

CallInitialize ==
    /\ ~validator.initialized
    /\ \E secret \in {"", "k1"}, audience \in {"", "svc"} :
           validator' = Initialize([JWTSecret |-> secret, OIDCAudience |-> audience])
    /\ UNCHANGED <<validation, classifierVars, clientVars, oauthVars>>

CallValidateToken ==
    /\ validator.initialized
    /\ \E token \in JWTs :
           LET r == ValidateToken(validator, token)
           IN  validation' = [op |-> "ValidateToken", token |-> <<token>>,
                              err |-> r.err, user |-> r.user]
    /\ UNCHANGED <<validator, classifierVars, clientVars, oauthVars>>

NextHMAC ==
    \/ CallInitialize
    \/ CallValidateToken

SpecHMAC == InitHMAC /\ [][NextHMAC]_vars

(***************************************************************************)
(* SpecOAuth: one OAuth2 handler, with or without a fixed redirect URI,    *)
(* serving authorize, callback and token requests.  The server runs each   *)
(* request on a goroutine of its own: HandleAuthorize and HandleToken      *)
(* assign h.oauth2Config.RedirectURL in one step and read it, inside       *)
(* AuthCodeURL and Exchange, in a later one.                               *)
(***************************************************************************)
FixedRedirectURI == <<"h", "t", "t", "p", ":", "/", "/", "m", "/", "c", "b">>

ClientStates == {<<"s", "1">>, <<"a", "&", "b">>}

ClientRedirectURIs == {<<"h", "t", "t", "p", ":", "/", "/", "a", "/", "c">>, <<"h", "t", "t", "p", ":", "/", "/", "b", "/", "c", "?", "t", "=", "1">>}

AuthorizationCode == <<"c", "1">>

AuthorizeRequests ==
    {[state |-> s, redirect_uri |-> r,
      code_challenge |-> p[1], code_challenge_method |-> p[2]] :
        s \in ClientStates, r \in ClientRedirectURIs,
        p \in {<<<<"c", "h">>, <<"S", "2", "5", "6">>>>, <<<<>>, <<>>>>}}

TokenRequests ==
    {[code |-> AuthorizationCode, grant_type |-> authorization_code,
      redirect_uri |-> r, code_verifier |-> <<"v">>] : r \in ClientRedirectURIs}
        \cup {[code |-> c[1], grant_type |-> c[2],
                redirect_uri |-> <<"h", "t", "t", "p", ":", "/", "/", "a", "/", "c">>, code_verifier |-> <<"v">>] :
                  c \in {<<<<>>, authorization_code>>,
                         <<AuthorizationCode, <<"r", "e", "f", "r", "e", "s", "h", "_", "t", "o", "k", "e", "n">>>>,
                         <<AuthorizationCode, <<>>>>}}

\* States of a callback that no HandleAuthorize issued.
CraftedStates ==
    {<<>>, <<"j", "u", "n", "k">>, <<"e", "3", "0", "=">>, <<"x", "|", "h", "t", "t", "p", ":", "/", "/", "a", "/", "c">>, <<"|", "h", "t", "t", "p", ":", "/", "/", "a", "/", "c">>, <<"x", "|">>, <<"x", "|", "y", "|", "z">>}

\* The callbacks of a provider: with a code, and then any state, or with an
\* error, or with neither, and then a state that would be proxied or one
\* that is not crafted, or with another code and a state that is not crafted.
CallbackRequests(states) ==
    {[code |-> AuthorizationCode, state |-> s, error |-> <<>>] : s \in states}
        \cup {[code |-> c, state |-> s, error |-> e] :
                  c \in {<<>>, AuthorizationCode},
                  s \in {<<"s", "1">>, <<"x", "|", "h", "t", "t", "p", ":", "/", "/", "a", "/", "c">>},
                  e \in {<<>>, <<"a", "c", "c", "e", "s", "s", "_", "d", "e", "n", "i", "e", "d">>}}
        \cup {[code |-> c, state |-> s, error |-> <<"a", "c", "c", "e", "s", "s", "_", "d", "e", "n", "i", "e", "d">>] :
                  c \in {<<>>, AuthorizationCode},
                  s \in states \ CraftedStates}
        \cup {[code |-> <<"c", "2">>, state |-> s, error |-> <<>>] : s \in states \ CraftedStates}

\* The goroutines that serve requests.
Slots == {"g1", "g2"}

NoRequest == [pc |-> "idle", req |-> <<>>]

NoResponse ==
    [handler |-> "none", req |-> <<>>, status |-> 0, location |-> <<>>, body |-> ""]

InitOAuth ==
    /\ handler \in {NewOAuth2Handler([RedirectURI |-> u]) : u \in {<<>>, FixedRedirectURI}}
    /\ inflight = [slot \in Slots |-> NoRequest]
    /\ provider = {}
    /\ response = NoResponse
    /\ ClassifierIdle
    /\ ClientIdle
    /\ HMACIdle

\* Whether one more request may reach the provider.
MoreRequests == Cardinality(provider) < MaxSent

Respond(name, req, r) ==
    response' = [handler |-> name, req |-> req, status |-> r.status,
                 location |-> r.location, body |-> r.body]

\* HandleAuthorize up to the assignment of h.oauth2Config.RedirectURL.
AuthorizeBegin(slot) ==
    /\ inflight[slot].pc = "idle"
    /\ MoreRequests
    /\ \E req \in AuthorizeRequests :
           /\ handler' = SetRedirectURL(handler, req)
           /\ inflight' = [inflight EXCEPT ![slot] = [pc |-> "AuthCodeURL", req |-> req]]
    /\ UNCHANGED <<provider, response, classifierVars, clientVars, hmacVars>>

\* HandleAuthorize from AuthCodeURL on: the redirect to the provider.
AuthorizeEnd(slot) ==
    /\ inflight[slot].pc = "AuthCodeURL"
    /\ MoreRequests
    /\ provider' = provider \cup
           {[endpoint |-> "authorize", req |-> inflight[slot].req,
             sent |-> AuthCodeURL(handler, inflight[slot].req)]}
    /\ Respond("HandleAuthorize", inflight[slot].req,
               Response(307, <<>>, "Temporary Redirect"))
    /\ inflight' = [inflight EXCEPT ![slot] = NoRequest]
    /\ UNCHANGED <<handler, classifierVars, clientVars, hmacVars>>

\* HandleToken up to the assignment of h.oauth2Config.RedirectURL, or to
\* the refusal of the request.
TokenBegin(slot) ==
    /\ inflight[slot].pc = "idle"
    /\ MoreRequests
    /\ \E req \in TokenRequests :
           IF TokenRefusal(req) # <<>>
           THEN /\ Respond("HandleToken", req, TokenRefusal(req)[1])
                /\ UNCHANGED <<handler, inflight>>
           ELSE /\ handler' = SetRedirectURL(handler, req)
                /\ inflight' = [inflight EXCEPT ![slot] = [pc |-> "Exchange", req |-> req]]
                /\ UNCHANGED response
    /\ UNCHANGED <<provider, classifierVars, clientVars, hmacVars>>

\* HandleToken from Exchange on: the token request and the response.
TokenEnd(slot) ==
    /\ inflight[slot].pc = "Exchange"
    /\ MoreRequests
    /\ provider' = provider \cup
           {[endpoint |-> "token", req |-> inflight[slot].req,
             sent |-> Exchange(handler, inflight[slot].req)]}
    /\ \E ok \in BOOLEAN : Respond("HandleToken", inflight[slot].req, TokenResponse(ok))
    /\ inflight' = [inflight EXCEPT ![slot] = NoRequest]
    /\ UNCHANGED <<handler, classifierVars, clientVars, hmacVars>>

\* The states the provider has been sent by HandleAuthorize.
IssuedStates == {p.sent.state : p \in {q \in provider : q.endpoint = "authorize"}}

\* HandleCallback, which reads h.config only.
Callback ==
    /\ \E req \in CallbackRequests(IssuedStates \cup CraftedStates) :
           Respond("HandleCallback", req, HandleCallback(handler, req))
    /\ UNCHANGED <<handler, inflight, provider, classifierVars, clientVars, hmacVars>>

NextOAuth ==
    \/ \E slot \in Slots : AuthorizeBegin(slot)
    \/ \E slot \in Slots : AuthorizeEnd(slot)
    \/ \E slot \in Slots : TokenBegin(slot)
    \/ \E slot \in Slots : TokenEnd(slot)
    \/ Callback

SpecOAuth == InitOAuth /\ [][NextOAuth]_vars

(***************************************************************************)
(* SpecPKCE: one token request served by HandleToken when no other request *)
(* is, or one request handed to a pkceTransport.                           *)
(***************************************************************************)
\* The paths of the token URL: the one NewOAuth2Handler appends to the
\* issuer, and one that discovery finds.
TokenPaths == {<<"/", "o", "a", "u", "t", "h", "2", "/", "v", "1", "/", "t", "o", "k", "e", "n">>, <<"/", "t", "o", "k", "e", "n">>}

\* Token requests with and without verifier, one verifier and one code
\* holding bytes that a form escapes, and one request without code.
PKCETokenRequests ==
    {[code |-> c, grant_type |-> authorization_code, redirect_uri |-> r,
      code_verifier |-> v] :
        c \in {AuthorizationCode, <<"a", " ", "b", "&", "c">>},
        r \in {<<>>, <<"h", "t", "t", "p", ":", "/", "/", "b", "/", "c", "?", "t", "=", "1">>},
        v \in {<<>>, <<"v">>, <<"v", "~", "/", "+">>}}
        \cup {[code |-> <<>>, grant_type |-> authorization_code,
                redirect_uri |-> <<>>, code_verifier |-> <<"v">>]}

\* Requests for a pkceTransport: the token POST, a GET of the token URL, and
\* POSTs to other endpoints, with bodies that hold a verifier or none, that
\* are not in the order of the keys, that do not parse or that are empty.
TransportRequests ==
    {[Method |-> m[1], Path |-> m[2], Body |-> b] :
        m \in {<<"POST", <<"/", "t", "o", "k", "e", "n">>>>, <<"POST", <<"/", "o", "a", "u", "t", "h", "2", "/", "v", "1", "/", "t", "o", "k", "e", "n">>>>,
               <<"GET", <<"/", "t", "o", "k", "e", "n">>>>, <<"POST", <<"/", "u", "s", "e", "r", "i", "n", "f", "o">>>>,
               <<"POST", <<"/", "t", "o", "k", "e", "n", "i", "n", "f", "o">>>>},
        b \in {<<"c", "o", "d", "e", "=", "c", "1", "&", "g", "r", "a", "n", "t", "_", "t", "y", "p", "e", "=", "a", "u", "t", "h", "o", "r", "i", "z", "a", "t", "i", "o", "n", "_", "c", "o", "d", "e">>,
               <<"c", "o", "d", "e", "=", "c", "1", "&", "c", "o", "d", "e", "_", "v", "e", "r", "i", "f", "i", "e", "r", "=", "w">>, <<"b", "=", "2", "&", "a", "=", "1">>, <<"a", "=", "%", "z", "z">>, <<>>}}

PendingRequests ==
    {[pc |-> "HandleToken", req |-> q] : q \in PKCETokenRequests}
        \cup {[pc |-> "RoundTrip", req |-> [p |-> [codeVerifier |-> v], r |-> x]] :
                  v \in {<<"v">>, <<>>}, x \in TransportRequests}

InitPKCE ==
    /\ handler \in {NewOAuth2Handler([RedirectURI |-> u]) : u \in {<<>>, FixedRedirectURI}}
    /\ inflight \in {[slot \in Slots |-> IF slot = "g1" THEN r ELSE NoRequest] :
                        r \in PendingRequests}
    /\ provider = {}
    /\ response = NoResponse
    /\ ClassifierIdle
    /\ ClientIdle
    /\ HMACIdle

\* HandleToken from the parameters on: the refusal, or the assignment of
\* h.oauth2Config.RedirectURL, the choice of the HTTP client and Exchange.
ServeToken ==
    /\ inflight["g1"].pc = "HandleToken"
    /\ LET req == inflight["g1"].req
       IN  IF TokenRefusal(req) # <<>>
           THEN /\ Respond("HandleToken", req, TokenRefusal(req)[1])
                /\ UNCHANGED <<handler, provider>>
           ELSE \E tokenPath \in TokenPaths, inParams \in BOOLEAN :
                    LET post == TokenPost(SetRedirectURL(handler, req), req, tokenPath, inParams)
                        out == Transport(req, post)
                    IN  /\ handler' = SetRedirectURL(handler, req)
                        /\ provider' = {[endpoint |-> "token", req |-> req,
                                         sent |-> [post |-> post, out |-> out]]}
                        /\ \E ok \in {b \in BOOLEAN : out.err => ~b} :
                               Respond("HandleToken", req, TokenResponse(ok))
    /\ inflight' = [slot \in Slots |-> NoRequest]
    /\ UNCHANGED <<classifierVars, clientVars, hmacVars>>

\* pkceTransport.RoundTrip on one request.
CallRoundTrip ==
    /\ inflight["g1"].pc = "RoundTrip"
    /\ provider' = {[endpoint |-> "transport", req |-> inflight["g1"].req.p,
                     sent |-> [post |-> inflight["g1"].req.r,
                               out |-> RoundTrip(inflight["g1"].req.p, inflight["g1"].req.r)]]}
    /\ inflight' = [slot \in Slots |-> NoRequest]
    /\ UNCHANGED <<handler, response, classifierVars, clientVars, hmacVars>>

NextPKCE ==
    \/ ServeToken
    \/ CallRoundTrip

SpecPKCE == InitPKCE /\ [][NextPKCE]_vars

(***************************************************************************)
(* SpecOutbound: the handler is constructed, with the discovery of the     *)
(* provider's endpoints for Okta, Google and Azure, and then serves token  *)
(* requests, each on a goroutine of its own.  The provider answers a call  *)
(* or does not; time passes for all pending calls alike, and a call whose  *)
(* deadline is reached is ended before more time passes.  Past MaxWait     *)
(* seconds no timer of the program is pending, and later instants are not  *)
(* told apart.  FairOutbound adds that time passes and that timers fire.   *)
(***************************************************************************)
OutboundProviders == {<<"o", "k", "t", "a">>, <<"g", "o", "o", "g", "l", "e">>, <<"a", "z", "u", "r", "e">>, hmac}

OutboundTokenRequests ==
    {[r EXCEPT !.code_verifier = v] :
        r \in {t \in TokenRequests : t.redirect_uri = <<"h", "t", "t", "p", ":", "/", "/", "a", "/", "c">>},
        v \in {<<>>, <<"v">>}}

Waiting(call) == [call |-> call, waited |-> 0]

InitOutbound ==
    /\ \E cfg \in {[Provider |-> p, RedirectURI |-> u] :
                      p \in OutboundProviders, u \in {<<>>, FixedRedirectURI}} :
           /\ handler = NewOAuth2Handler(cfg)
           /\ inflight =
                  [slot \in Slots |->
                      IF slot = "g1" /\ cfg.Provider # hmac
                      THEN [pc |-> "discoverOIDCEndpoints", req |-> cfg,
                            out |-> Waiting(discoverOIDCEndpoints)]
                      ELSE NoRequest]
    /\ provider = {}
    /\ response = NoResponse
    /\ ClassifierIdle
    /\ ClientIdle
    /\ HMACIdle

\* A call to the provider is pending on the goroutine.
Pending(slot) == inflight[slot].pc \in {"discoverOIDCEndpoints", "Exchange"}

\* The deadline of the pending call is reached.
Expired(slot) ==
    /\ Pending(slot)
    /\ Deadline(inflight[slot].out.call) # 0
    /\ inflight[slot].out.waited >= Deadline(inflight[slot].out.call)

\* The handler has been constructed.
Constructed == \A slot \in Slots : inflight[slot].pc # "discoverOIDCEndpoints"

\* The pending call returns, with an error or not: discoverOIDCEndpoints
\* returns the endpoints or the error for which NewOAuth2Handler falls back
\* to the endpoints under the issuer, HandleToken answers.
EndCall(slot, ok) ==
    /\ IF inflight[slot].pc = "discoverOIDCEndpoints"
       THEN Respond("discoverOIDCEndpoints", inflight[slot].req,
                    Response(0, <<>>, IF ok THEN "provider.Endpoint()"
                                      ELSE "failed to discover OIDC provider"))
       ELSE Respond("HandleToken", inflight[slot].req, TokenResponse(ok))
    /\ inflight' = [inflight EXCEPT ![slot] = NoRequest]
    /\ UNCHANGED <<handler, provider, classifierVars, clientVars, hmacVars>>

\* HandleToken up to the call of Exchange, or to the refusal of the request.
TokenCall(slot) ==
    /\ Constructed
    /\ inflight[slot].pc = "idle"
    /\ \E req \in OutboundTokenRequests :
           IF TokenRefusal(req) # <<>>
           THEN /\ Respond("HandleToken", req, TokenRefusal(req)[1])
                /\ UNCHANGED <<handler, inflight, provider>>
           ELSE /\ handler' = SetRedirectURL(handler, req)
                /\ inflight' = [inflight EXCEPT ![slot] =
                                   [pc |-> "Exchange", req |-> req,
                                    out |-> Waiting(ExchangeCall(req))]]
                /\ provider' = provider \cup
                       {[endpoint |-> "token", req |-> req,
                         sent |-> Exchange(SetRedirectURL(handler, req), req)]}
                /\ UNCHANGED response
    /\ UNCHANGED <<classifierVars, clientVars, hmacVars>>

\* The provider answers the pending call in time.
Answer(slot) ==
    /\ Pending(slot)
    /\ ~Expired(slot)
    /\ \E ok \in BOOLEAN : EndCall(slot, ok)

\* The deadline of the pending call is reached: the call ends with an error.
Expire(slot) ==
    /\ Expired(slot)
    /\ EndCall(slot, FALSE)

\* A second passes.
Tick ==
    /\ \E slot \in Slots : Pending(slot) /\ inflight[slot].out.waited < MaxWait
    /\ \A slot \in Slots : ~Expired(slot)
    /\ inflight' =
           [slot \in Slots |->
               IF Pending(slot) /\ inflight[slot].out.waited < MaxWait
               THEN [inflight[slot] EXCEPT !.out.waited = @ + 1]
               ELSE inflight[slot]]
    /\ UNCHANGED <<handler, provider, response, classifierVars, clientVars, hmacVars>>

NextOutbound ==
    \/ \E slot \in Slots : TokenCall(slot)
    \/ \E slot \in Slots : Answer(slot)
    \/ \E slot \in Slots : Expire(slot)
    \/ Tick

SpecOutbound == InitOutbound /\ [][NextOutbound]_vars

\* The clock advances and a timer that is due fires.
FairOutbound ==
    /\ SpecOutbound
    /\ WF_vars(Tick)
    /\ \A slot \in Slots : WF_vars(Expire(slot))

(***************************************************************************)
(* SpecSanitize: NewClient fails to connect, with an error of the driver   *)
(* that may hold the password as it is, as the data source name holds it,  *)
(* and other text.                                                         *)
(***************************************************************************)
Passwords == {<<>>, <<"p", "w">>, <<"p", "@", "s">>, <<"a", " ", "b">>, <<"a", "a">>, <<"E">>, <<"x", "[">>}

\* The messages of at most maxParts parts.
DriverMessages(password, maxParts) ==
    LET parts == {password, QueryEscape(password), <<"x">>, <<"a">>, <<"[">>, <<":", " ">>}
    IN  UNION {{Concat(ps) : ps \in [1..n -> parts]} : n \in 0..maxParts}

InitSanitize ==
    /\ ClientIdle
    /\ ClassifierIdle
    /\ HMACIdle
    /\ OAuthIdle

CallNewClient ==
    /\ last = NoCall
    /\ \E password \in Passwords, opened \in BOOLEAN :
           \E errStr \in DriverMessages(password, MaxParts) :
               last' = [NoCall EXCEPT !.op = "NewClient",
                                      !.args = <<password, opened>>,
                                      !.answer = errStr,
                                      !.err = NewClient(password, opened, errStr)]
    /\ UNCHANGED <<config, engineLog, classifierVars, hmacVars, oauthVars>>

NextSanitize == CallNewClient

SpecSanitize == InitSanitize /\ [][NextSanitize]_vars

(***************************************************************************)
(* SpecRegister: registration requests served by HandleRegister.           *)
(***************************************************************************)
ClientSecrets == {<<"s", "e", "c", "1">>, <<"s", "e", "c", "2">>}

\* The documents a caller sends as the value of a member.
ClientNames == {JSONString(<<"a", "p", "p">>), JSONString(<<"s", "e", "c", "1">>)}

RedirectURILists ==
    {JSONArray(<<>>), JSONString(<<"h", "t", "t", "p", ":", "/", "/", "a", "/", "c">>)}
        \cup {JSONArray(<<u>>) : u \in ClientRedirectURIs}
        \cup {JSONArray(<<u, v>>) : u, v \in ClientRedirectURIs}

\* The bodies of registration requests: an object with or without a
\* client_name and redirect_uris, the other JSON documents, a text that is
\* no JSON document, and nothing.
RegistrationBodies ==
    {[kind |-> "object", members |-> name \cup uris] :
        name \in {{}} \cup {{<<"client_name", n>>} : n \in ClientNames},
        uris \in {{}} \cup {{<<"redirect_uris", l>>} : l \in RedirectURILists}}
        \cup {[kind |-> k, members |-> {}] :
                  k \in {"null", "array", "string", "number", "malformed", "empty"}}

\* The bodies that are JSON documents.
JSONKinds == {"object", "null", "array", "string", "number"}

InitRegister ==
    /\ handler \in {[RedirectURI |-> u, RedirectURL |-> <<>>,
                     ClientID |-> <<"c", "i", "d">>, ClientSecret |-> sec] :
                        u \in {<<>>, FixedRedirectURI}, sec \in ClientSecrets}
    /\ inflight = [slot \in Slots |-> NoRequest]
    /\ provider = {}
    /\ response = NoResponse
    /\ ClassifierIdle
    /\ ClientIdle
    /\ HMACIdle

Register ==
    /\ \E body \in RegistrationBodies :
           Respond("HandleRegister", [body |-> body],
                   HandleRegister(handler, [body |-> body]))
    /\ UNCHANGED <<handler, inflight, provider, classifierVars, clientVars, hmacVars>>

NextRegister == Register

SpecRegister == InitRegister /\ [][NextRegister]_vars

(***************************************************************************)
(* SpecConfig: the configuration is constructed from an environment, and   *)
(* an HMAC validator is initialized, from that configuration or from one   *)
(* made up as the validator's tests do.                                    *)
(***************************************************************************)
\* The name is not set, or is set to one of the values.
Choices(key, values) == {{}} \cup {{<<key, v>>} : v \in values}

Environments ==
    {mode \cup prov \cup enabled \cup secret \cup audience \cup schemas \cup tables :
        mode \in Choices(OAUTH_MODE, {<<"P", "r", "o", "x", "y">>, <<"b", "o", "t", "h">>}),
        prov \in Choices(OAUTH_PROVIDER, {hmac, <<"O", "K", "T", "A">>, <<"g", "o", "o", "g", "l", "e">>, <<"a", "z", "u", "r", "e">>, <<"l", "d", "a", "p">>}),
        enabled \in Choices(OAUTH_ENABLED, {<<"t", "r", "u", "e">>, <<"f", "a", "l", "s", "e">>}),
        secret \in Choices(JWT_SECRET, {"k1"}),
        audience \in Choices(OIDC_AUDIENCE, {"svc"}),
        schemas \in Choices(TRINO_ALLOWED_SCHEMAS, {<<"c", ".", "s", "1", ",", " ", "c", ".", "s", "2">>, <<"c">>}),
        tables \in Choices(TRINO_ALLOWED_TABLES, {<<"c", ".", "s", "1">>})}

InitConfig ==
    /\ ClientIdle
    /\ HMACIdle
    /\ ClassifierIdle
    /\ OAuthIdle

\* NewTrinoConfig is called: config is what it returns, with the environment
\* it read.
LoadConfig ==
    /\ config = NoClient
    /\ \E env \in Environments :
           config' = [env |-> env, err |-> NewTrinoConfig(env).err,
                      cfg |-> NewTrinoConfig(env).cfg]
    /\ UNCHANGED <<engineLog, last, classifierVars, hmacVars, oauthVars>>

\* The configuration constructed, if it selects the HMAC provider.
LoadedHMAC ==
    IF config = NoClient THEN {}
    ELSE {config.cfg[k] : k \in {k \in 1..Len(config.cfg) :
                                    /\ config.cfg[k].OAuthEnabled
                                    /\ config.cfg[k].OAuthProvider = hmac}}

\* Initialize is called on a new validator with one of the configurations.
InitializeValidator(cfgs) ==
    /\ validator = NewValidator
    /\ \E cfg \in cfgs :
           /\ validator' = Initialize(cfg)
           /\ validation' = [op |-> "Initialize", token |-> <<cfg>>,
                             err |-> IF Initialize(cfg).err = "none" THEN NoError
                                     ELSE Error("ConfigError", Initialize(cfg).err),
                             user |-> <<>>]
    /\ UNCHANGED <<classifierVars, clientVars, oauthVars>>

NextConfig ==
    \/ LoadConfig
    \/ InitializeValidator(LoadedHMAC)
    \/ InitializeValidator({[JWTSecret |-> secret, OIDCAudience |-> audience] :
                               secret \in {"", "k1"}, audience \in {"", "svc"}})

SpecConfig == InitConfig /\ [][NextConfig]_vars

(***************************************************************************)
(* SpecMode: the configuration is constructed from an environment that     *)
(* selects a mode, the handler is constructed from it, and one request is  *)
(* handed to HandleAuthorize, HandleCallback, HandleToken or               *)
(* HandleRegister.                                                         *)
(***************************************************************************)
native == <<"n", "a", "t", "i", "v", "e">>

ModeEnvironments ==
    {mode \cup prov \cup audience :
        mode \in Choices(OAUTH_MODE, {native, <<"N", "a", "t", "i", "v", "e">>, <<"p", "r", "o", "x", "y">>, <<"P", "r", "o", "x", "y">>}),
        prov \in Choices(OAUTH_PROVIDER, {<<"o", "k", "t", "a">>}),
        audience \in {{<<OIDC_AUDIENCE, "svc">>}}}

\* The configuration NewTrinoConfig returns for the environment, with the
\* redirect URI that NewOAuth2ConfigFromTrinoConfig reads from it.
TrinoConfigs(env, uris) ==
    {[err |-> NoError, env |-> env,
      cfg |-> <<NewTrinoConfig(env).cfg[1] @@ [OAuthRedirectURI |-> u]>>] : u \in uris}

InitMode ==
    /\ \E env \in {e \in ModeEnvironments : NewTrinoConfig(e).err = NoError} :
           \E loaded \in TrinoConfigs(env, {<<>>, FixedRedirectURI}) :
               /\ config = loaded
               /\ handler = NewOAuth2Handler(NewOAuth2ConfigFromTrinoConfig(loaded.cfg[1]))
                                @@ [ClientID |-> <<"c", "i", "d">>, ClientSecret |-> <<"s", "e", "c", "1">>]
    /\ engineLog = <<>>
    /\ last = NoCall
    /\ inflight = [slot \in Slots |-> NoRequest]
    /\ provider = {}
    /\ response = NoResponse
    /\ ClassifierIdle
    /\ HMACIdle

\* No request has been served.
FirstRequest == response = NoResponse

ModeAuthorize ==
    /\ FirstRequest
    /\ \E req \in AuthorizeRequests :
           /\ handler' = SetRedirectURL(handler, req)
           /\ provider' = {[endpoint |-> "authorize", req |-> req,
                            sent |-> HandleAuthorize(handler, req)]}
           /\ Respond("HandleAuthorize", req, Response(307, <<>>, "Temporary Redirect"))
    /\ UNCHANGED <<inflight, classifierVars, clientVars, hmacVars>>

ModeCallback ==
    /\ FirstRequest
    /\ \E req \in CallbackRequests(CraftedStates) :
           Respond("HandleCallback", req, HandleCallback(handler, req))
    /\ UNCHANGED <<handler, inflight, provider, classifierVars, clientVars, hmacVars>>

ModeToken ==
    /\ FirstRequest
    /\ \E req \in TokenRequests :
           IF TokenRefusal(req) # <<>>
           THEN /\ Respond("HandleToken", req, TokenRefusal(req)[1])
                /\ UNCHANGED <<handler, provider>>
           ELSE /\ handler' = SetRedirectURL(handler, req)
                /\ provider' = {[endpoint |-> "token", req |-> req,
                                 sent |-> Exchange(SetRedirectURL(handler, req), req)]}
                /\ \E ok \in BOOLEAN : Respond("HandleToken", req, TokenResponse(ok))
    /\ UNCHANGED <<inflight, classifierVars, clientVars, hmacVars>>

ModeRegister ==
    /\ FirstRequest
    /\ Register

NextMode ==
    \/ ModeAuthorize
    \/ ModeCallback
    \/ ModeToken
    \/ ModeRegister

SpecMode == InitMode /\ [][NextMode]_vars

(***************************************************************************)
(* Properties of the read-only gate.                                       *)
(***************************************************************************)
\* C1: with write queries disabled, every statement handed to the engine,
\* by whichever method, is one that isReadOnlyQuery accepts; a call of
\* ExecuteQuery with a statement the classifier rejects returns the
\* security-restriction error and hands nothing to the engine, and no call
\* of any method that hands nothing to the engine returns without error.
ReadOnlyGate ==
    ~config.AllowWriteQueries =>
        /\ \A k \in 1..Len(engineLog) : isReadOnlyQuery(engineLog[k])
        /\ (last.op = "ExecuteQuery" /\ ~isReadOnlyQuery(last.args[1])) =>
               /\ last.err.kind = "security restriction"
               /\ last.sent = <<>>
        /\ (last.op # "none" /\ last.sent = <<>>) => last.err # NoError

\* A rejected statement after an accepted one, write queries disabled.
ReadOnlyGateWitness ==
    /\ ~config.AllowWriteQueries
    /\ Len(engineLog) > 0
    /\ last.op = "ExecuteQuery"
    /\ ~isReadOnlyQuery(last.args[1])
    /\ last.err.kind = "security restriction"

\* The words of s: its maximal runs of word characters.
WordsOf(s) ==
    {SubSeq(s, i, j) : <<i, j>> \in
        {<<i, j>> \in (1..Len(s)) \X (1..Len(s)) :
            /\ i <= j
            /\ \A k \in i..j : s[k] \in WordChars
            /\ (i = 1 \/ s[i - 1] \notin WordChars)
            /\ (j = Len(s) \/ s[j + 1] \notin WordChars)}}

WriteKeywords == {writeOperations[k] : k \in 1..Len(writeOperations)}

\* C2: a query one of whose words, once literals, quoted identifiers and
\* comments are stripped, is a write keyword is rejected, whatever it
\* begins with.
WriteKeywordRejected ==
    (verdict # "pending" /\ WordsOf(normalizedQuery(sqlText)) \cap WriteKeywords # {})
        => verdict = "rejected"

\* A query that begins with select and holds the word set was classified.
WriteKeywordRejectedWitness ==
    /\ verdict = "rejected"
    /\ HasReadOnlyPrefix(normalizedQuery(sqlText))
    /\ <<"s", "e", "t">> \in WordsOf(normalizedQuery(sqlText))
    /\ ~ContainsChar(normalizedQuery(sqlText), ";")

\* C3: a query in which a semicolon remains once literals, quoted
\* identifiers and comments are stripped is rejected.
SemicolonRejected ==
    (verdict # "pending" /\ ContainsChar(normalizedQuery(sqlText), ";"))
        => verdict = "rejected"

\* A plain select with one trailing semicolon was classified.
SemicolonRejectedWitness ==
    /\ verdict = "rejected"
    /\ sqlText = <<"s", "e", "l", "e", "c", "t", " ", "x", ";">>

(***************************************************************************)
(* Properties of the read-only prefix.                                     *)
(***************************************************************************)
ReadOnlyKeywords ==
    { <<"s", "e", "l", "e", "c", "t">>, <<"s", "h", "o", "w">>,
      <<"d", "e", "s", "c", "r", "i", "b", "e">>,
      <<"e", "x", "p", "l", "a", "i", "n">>, <<"w", "i", "t", "h">> }

\* s without its leading white space.
AfterLeadingSpace(s) ==
    LET nonspace == {i \in 1..Len(s) : s[i] \notin RegexSpace}
    IN  IF nonspace = {} THEN <<>> ELSE Suffix(s, MinOf(nonspace))

\* s begins, after optional leading white space, with the characters of one
\* of the keywords.
BeginsWith(s, keywords) ==
    \E kw \in keywords : OccursAt(AfterLeadingSpace(s), kw, 1)

\* The same, with the keyword immediately followed by an identifier character.
BeginsWithGlued(s, keywords) ==
    \E kw \in keywords :
        /\ OccursAt(AfterLeadingSpace(s), kw, 1)
        /\ Len(AfterLeadingSpace(s)) > Len(kw)
        /\ AfterLeadingSpace(s)[Len(kw) + 1] \in WordChars

\* The statement holds no write keyword and no semicolon.
FreeOfWrites(s) ==
    /\ ~ContainsChar(s, ";")
    /\ WordsOf(s) \cap WriteKeywords = {}

\* C11: a classified statement with no write keyword and no semicolon is
\* read-only if and only if its normalized text begins, after optional
\* leading white space, with select, show, describe, explain or with; the
\* empty statement is rejected.
FailsClosed ==
    (verdict # "pending" /\ FreeOfWrites(normalizedQuery(sqlText))) =>
        (verdict = "readonly" <=> BeginsWith(normalizedQuery(sqlText), ReadOnlyKeywords))

\* A statement that begins with the characters of a read-only keyword and
\* holds neither write keyword nor semicolon was rejected.
FailsClosedWitness ==
    /\ verdict = "rejected"
    /\ FreeOfWrites(normalizedQuery(sqlText))
    /\ BeginsWith(normalizedQuery(sqlText), ReadOnlyKeywords)

\* The half of C11 that is about rejection: whatever is classified read-only
\* begins with a read-only keyword and holds neither write keyword nor
\* semicolon, and the empty statement is rejected.
OnlyKeywordsAccepted ==
    /\ verdict = "readonly" =>
           /\ BeginsWith(normalizedQuery(sqlText), ReadOnlyKeywords)
           /\ FreeOfWrites(normalizedQuery(sqlText))
    /\ (verdict # "pending" /\ normalizedQuery(sqlText) = <<>>) => verdict = "rejected"

\* C12: a classified statement with no write keyword and no semicolon whose
\* normalized text starts with select, show or describe immediately followed
\* by an identifier character is read-only, in any letter case.
KeywordPrefixAccepted ==
    (/\ verdict # "pending"
     /\ FreeOfWrites(normalizedQuery(sqlText))
     /\ BeginsWithGlued(normalizedQuery(sqlText),
                        { <<"s", "e", "l", "e", "c", "t">>, <<"s", "h", "o", "w">>,
                          <<"d", "e", "s", "c", "r", "i", "b", "e">> }))
        => verdict = "readonly"

\* SHOWid was classified, and rejected.
KeywordPrefixAcceptedWitness ==
    /\ verdict = "rejected"
    /\ sqlText = <<"S", "H", "O", "W", "i", "d">>

(***************************************************************************)
(* Properties of the stripping of literals, identifiers and comments.  The *)
(* classifier is compared with the lexing of SQL from left to right, as    *)
(* the engine reads a statement: a quote opens a literal or an identifier  *)
(* only outside a comment, a comment marker opens a comment only outside a *)
(* literal or identifier, and a line comment ends with its line.           *)
(***************************************************************************)
RECURSIVE Lexed(_, _, _)
\* s from position i on, read in a mode: its text with every character of
\* a literal, of a quoted identifier and of a comment replaced by a space,
\* and whether every literal, identifier and block comment is closed.
Lexed(s, i, mode) ==
    IF i > Len(s) THEN [text |-> <<>>, closed |-> mode \in {"sql", "line"}]
    ELSE LET step(n, next, chars) ==
                 LET rest == Lexed(s, i + n, next)
                 IN  [text |-> chars \o rest.text, closed |-> rest.closed]
         IN  CASE mode = "sql" ->
                    IF s[i] = "'" THEN step(1, "single", <<" ">>)
                    ELSE IF s[i] = "\"" THEN step(1, "double", <<" ">>)
                    ELSE IF s[i] = Backquote THEN step(1, "backtick", <<" ">>)
                    ELSE IF OccursAt(s, <<"-", "-">>, i) THEN step(2, "line", <<" ", " ">>)
                    ELSE IF OccursAt(s, <<"/", "*">>, i) THEN step(2, "block", <<" ", " ">>)
                    ELSE step(1, "sql", <<s[i]>>)
               [] mode = "single" ->
                    IF OccursAt(s, <<"'", "'">>, i) THEN step(2, "single", <<" ", " ">>)
                    ELSE IF s[i] = "'" THEN step(1, "sql", <<" ">>)
                    ELSE step(1, "single", <<" ">>)
               [] mode = "double" ->
                    IF OccursAt(s, <<"\"", "\"">>, i) THEN step(2, "double", <<" ", " ">>)
                    ELSE IF s[i] = "\"" THEN step(1, "sql", <<" ">>)
                    ELSE step(1, "double", <<" ">>)
               [] mode = "backtick" ->
                    IF s[i] = Backquote THEN step(1, "sql", <<" ">>)
                    ELSE step(1, "backtick", <<" ">>)
               [] mode = "line" ->
                    IF s[i] \in {"\n", "\r"} THEN step(1, "sql", <<s[i]>>)
                    ELSE step(1, "line", <<" ">>)
               [] OTHER ->
                    IF OccursAt(s, <<"*", "/">>, i) THEN step(2, "sql", <<" ", " ">>)
                    ELSE step(1, "block", <<" ">>)

\* What a statement holds outside its literals, identifiers and comments.
Outside(s) == ToLower(Lexed(s, 1, "sql").text)

WellFormed(s) == Lexed(s, 1, "sql").closed

\* The statement holds a write keyword or a semicolon inside a literal, an
\* identifier or a comment.
HidesWrites(s) ==
    \E i \in 1..Len(s) :
        /\ Outside(s)[i] = " "
        /\ \/ s[i] = ";"
           \/ \E kw \in WriteKeywords : OccursAt(ToLower(s), kw, i)

\* The first word of the statement is a read-only keyword.
FirstWordReadOnly(s) ==
    \E kw \in ReadOnlyKeywords :
        /\ OccursAt(AfterLeadingSpace(Outside(s)), kw, 1)
        /\ kw \in WordsOf(AfterLeadingSpace(Outside(s)))

\* C26: a statement whose first word is a read-only keyword, whose
\* literals, identifiers and block comments are closed and which holds
\* write keywords and semicolons, but only inside them and inside line
\* comments, is classified read-only.
StrippedContentIgnored ==
    (/\ verdict # "pending"
     /\ WellFormed(sqlText)
     /\ FirstWordReadOnly(sqlText)
     /\ HidesWrites(sqlText)
     /\ FreeOfWrites(Outside(sqlText)))
        => verdict = "readonly"

\* A statement with a semicolon inside a block comment, and nowhere else,
\* was rejected.
StrippedContentIgnoredWitness ==
    /\ verdict = "rejected"
    /\ sqlText \in {<<"s", "e", "l", "e", "c", "t", "/", "*", ";", "-", "-", "*", "/">>, <<"s", "e", "l", "e", "c", "t", "/", "*", ";", "*", "/", "x">>}

\* A write keyword or a semicolon follows the end of the line of a line
\* comment, outside every literal, identifier and comment.
WritesAfterLineComment(s) ==
    \E i \in 1..Len(s), j \in 1..Len(s), k \in 1..Len(s) :
        /\ i < j
        /\ j < k
        /\ OccursAt(s, <<"-", "-">>, i)
        /\ Outside(s)[i] = " "
        /\ (i = 1 \/ Lexed(SubSeq(s, 1, i - 1), 1, "sql").closed)
        /\ \A n \in i..(j - 1) : s[n] \notin {"\n", "\r"}
        /\ s[j] \in {"\n", "\r"}
        /\ Outside(s)[k] # " "
        /\ \/ s[k] = ";"
           \/ \E kw \in WriteKeywords :
                  /\ OccursAt(Outside(s), kw, k)
                  /\ kw \in WordsOf(Outside(s))

\* C27: a statement in which a write keyword or a semicolon follows the
\* line of a line comment is rejected.
LineCommentEndsWithLine ==
    (verdict # "pending" /\ WritesAfterLineComment(sqlText)) => verdict = "rejected"

\* select, a line comment, and the word set on the next line: classified
\* read-only.
LineCommentEndsWithLineWitness ==
    /\ verdict = "readonly"
    /\ sqlText = <<"s", "e", "l", "e", "c", "t", "-", "-", "\n", "s", "e", "t">>

\* C28: a statement that holds a write keyword or a semicolon outside every
\* literal, identifier and comment is rejected, whatever quotes its
\* comments hold and whatever comment markers its literals hold; stated for
\* the statements of one line, the end of a line comment being apart.
LexedWritesRejected ==
    (/\ verdict # "pending"
     /\ ~ContainsChar(sqlText, "\n")
     /\ ~ContainsChar(sqlText, "\r")
     /\ ~FreeOfWrites(Outside(sqlText)))
        => verdict = "rejected"

\* select, a block comment that holds the marker of a line comment, and the
\* word set after it: classified read-only.
LexedWritesRejectedWitness ==
    /\ verdict = "readonly"
    /\ sqlText = <<"s", "e", "l", "e", "c", "t", "/", "*", "-", "-", "*", "/", "s", "e", "t">>

(***************************************************************************)
(* Properties of the allowlists.                                           *)
(***************************************************************************)
\* The catalog and the schema that the last ListTables call listed.
ListedCatalog == IF last.args[1] = <<>> THEN config.Catalog ELSE last.args[1]

ListedSchema == IF last.args[2] = <<>> THEN config.Schema ELSE last.args[2]

\* C5: with schema allowlist {c.s1} and table allowlist {c.s1.t1},
\* ListTables(c, s1) returns only t1 and ListTables(c, s2) returns every
\* table the engine reports for c.s2.
AllowlistIndependence ==
    ( /\ config.AllowedSchemas = <<Dotted(<<CatalogC, SchemaS1>>)>>
      /\ config.AllowedTables = <<Dotted(<<CatalogC, SchemaS1, TableT1>>)>>
      /\ last.op = "ListTables"
      /\ last.err = NoError
      /\ ListedCatalog = CatalogC )
    => /\ ListedSchema = SchemaS1 =>
              last.out = SelectSeq(last.answer, LAMBDA t : t = TableT1)
       /\ ListedSchema = SchemaS2 => last.out = last.answer

\* ListTables(c, s2) returned under those allowlists, the engine having
\* reported tables.
AllowlistIndependenceWitness ==
    /\ config.AllowedSchemas = <<Dotted(<<CatalogC, SchemaS1>>)>>
    /\ config.AllowedTables = <<Dotted(<<CatalogC, SchemaS1, TableT1>>)>>
    /\ last.op = "ListTables"
    /\ last.err = NoError
    /\ ListedCatalog = CatalogC
    /\ ListedSchema = SchemaS2
    /\ last.answer # <<>>

\* The four spellings of table t1 of the default schema of the default
\* catalog: (c, s, t), ("", s, t), ("", "", "s.t") and ("", "", "c.s.t").
Spellings(cfg, t) ==
    { <<cfg.Catalog, cfg.Schema, t>>,
      <<<<>>, cfg.Schema, t>>,
      <<<<>>, <<>>, Dotted(<<cfg.Schema, t>>)>>,
      <<<<>>, <<>>, Dotted(<<cfg.Catalog, cfg.Schema, t>>)>> }

\* C6: with default catalog c and default schema s, GetTableSchema called
\* with (c, s, t), ("", s, t), ("", "", "s.t") or ("", "", "c.s.t")
\* resolves to the identity c.s.t, gets the verdict the table allowlist
\* gives c.s.t and, when allowed, hands the engine DESCRIBE c.s.t.
SpellingsAgree ==
    \A t \in {TableT1, TableT2} :
        (last.op = "GetTableSchema" /\ last.args \in Spellings(config, t)) =>
            /\ last.identity = <<config.Catalog, config.Schema, t>>
            /\ (last.err.kind = "table access denied") =
                   ( /\ Len(config.AllowedTables) > 0
                     /\ ~isTableAllowed(config, config.Catalog, config.Schema, t) )
            /\ last.err.kind = "table access denied" => last.sent = <<>>
            /\ last.err.kind # "table access denied" =>
                   last.sent = <<DESCRIBE \o config.Catalog \o <<".">>
                                     \o config.Schema \o <<".">> \o t>>

\* The shortest dotted spelling was allowed and described under a table
\* allowlist.
SpellingsAgreeWitness ==
    /\ last.op = "GetTableSchema"
    /\ last.args = <<<<>>, <<>>, Dotted(<<SchemaS1, TableT1>>)>>
    /\ Len(config.AllowedTables) > 0
    /\ last.err = NoError
    /\ last.sent # <<>>

(***************************************************************************)
(* Properties of the access predicates and of the filters.                 *)
(***************************************************************************)
\* C13, as stated: a predicate applied while its own allowlist is empty
\* returns true, whatever the other two allowlists hold.
EmptyAllowlistAllows ==
    /\ (last.op = "isCatalogAllowed" /\ Len(config.AllowedCatalogs) = 0)
           => last.out = <<TRUE>>
    /\ (last.op = "isSchemaAllowed" /\ Len(config.AllowedSchemas) = 0)
           => last.out = <<TRUE>>
    /\ (last.op = "isTableAllowed" /\ Len(config.AllowedTables) = 0)
           => last.out = <<TRUE>>

\* C13, amended: a predicate applied while its own allowlist is empty
\* returns false for every name, whatever the other two allowlists hold; it
\* is the filter that leaves its input as it is when its allowlist is empty,
\* whatever the other two hold.
EmptyAllowlistUnrestricted ==
    /\ (last.op = "isCatalogAllowed" /\ Len(config.AllowedCatalogs) = 0)
           => last.out = <<FALSE>>
    /\ (last.op = "isSchemaAllowed" /\ Len(config.AllowedSchemas) = 0)
           => last.out = <<FALSE>>
    /\ (last.op = "isTableAllowed" /\ Len(config.AllowedTables) = 0)
           => last.out = <<FALSE>>
    /\ (last.op = "filterCatalogs" /\ Len(config.AllowedCatalogs) = 0)
           => last.out = last.args[1]
    /\ (last.op = "filterSchemas" /\ Len(config.AllowedSchemas) = 0)
           => last.out = last.args[1]
    /\ (last.op = "filterTables" /\ Len(config.AllowedTables) = 0)
           => last.out = last.args[1]

\* isCatalogAllowed was applied with no catalog allowlist while the schema
\* and the table allowlists name the catalog.
EmptyAllowlistUnrestrictedWitness ==
    /\ last.op = "isCatalogAllowed"
    /\ last.args = <<CatalogC>>
    /\ Len(config.AllowedCatalogs) = 0
    /\ Len(config.AllowedSchemas) > 0
    /\ Len(config.AllowedTables) > 0

\* name is an entry of the allowlist, ignoring letter case.
Listed(name, allowlist) ==
    \E k \in 1..Len(allowlist) : ToUpper(name) = ToUpper(allowlist[k])

\* out holds the elements of in at the positions keep, in the order and as
\* many times as they occur in in.
IsSelection(out, in, keep) ==
    /\ Len(out) = Cardinality(keep)
    /\ \A i \in keep : out[Cardinality({k \in keep : k <= i})] = in[i]

\* C14: a filter returns the elements of its input whose fully qualified
\* name is an entry of its allowlist ignoring letter case, in their order
\* and multiplicity, and its input when the allowlist is empty; applied to
\* its own result it returns that result.
FiltersExact ==
    /\ last.op = "filterCatalogs" =>
           LET in == last.args[1]
               allowlist == config.AllowedCatalogs
           IN  /\ IF allowlist = <<>> THEN last.out = in
                  ELSE IsSelection(last.out, in,
                                   {i \in 1..Len(in) : Listed(in[i], allowlist)})
               /\ filterCatalogs(config, last.out) = last.out
    /\ last.op = "filterSchemas" =>
           LET in == last.args[1]
               allowlist == config.AllowedSchemas
           IN  /\ IF allowlist = <<>> THEN last.out = in
                  ELSE IsSelection(last.out, in,
                                   {i \in 1..Len(in) :
                                       Listed(Dotted(<<last.args[2], in[i]>>), allowlist)})
               /\ filterSchemas(config, last.out, last.args[2]) = last.out
    /\ last.op = "filterTables" =>
           LET in == last.args[1]
               allowlist == config.AllowedTables
           IN  /\ IF allowlist = <<>> THEN last.out = in
                  ELSE IsSelection(last.out, in,
                                   {i \in 1..Len(in) :
                                       Listed(Dotted(<<last.args[2], last.args[3], in[i]>>),
                                              allowlist)})
               /\ filterTables(config, last.out, last.args[2], last.args[3]) = last.out

\* filterTables kept T1, which the allowlist spells c.s1.t1, and dropped t2.
FiltersExactWitness ==
    /\ last.op = "filterTables"
    /\ last.args = << <<<<"T", "1">>, TableT2>>, CatalogC, SchemaS1 >>
    /\ config.AllowedTables = <<Dotted(<<CatalogC, SchemaS1, TableT1>>)>>
    /\ last.out = << <<"T", "1">> >>

\* The qualified name a table reference stands for: the reference itself
\* when it names catalog, schema and table, and otherwise its parts, the
\* catalog and schema given with it and the defaults, in this order.
ResolvedName(cfg, args) ==
    LET parts == Split(args[3], ".")
        catalog == IF args[1] = <<>> THEN cfg.Catalog ELSE args[1]
        schema == IF args[2] = <<>> THEN cfg.Schema ELSE args[2]
    IN  IF Len(parts) = 3 THEN args[3]
        ELSE IF Len(parts) = 2 THEN Dotted(<<catalog, args[3]>>)
        ELSE Dotted(<<catalog, schema, args[3]>>)

\* C25: GetTableSchema asks the table allowlist about the resolved name:
\* the statement it hands the engine is DESCRIBE of the resolved name, which
\* a table allowlist that is not empty lists; and when the allowlist is not
\* empty and does not list the resolved name, nothing is handed to the
\* engine and the error names the resolved name; a resolved name that the
\* allowlist lists is not refused.
CheckedAfterResolution ==
    last.op = "GetTableSchema" =>
        /\ engineLog = last.sent
        /\ last.sent # <<>> =>
               /\ last.sent = <<DESCRIBE \o ResolvedName(config, last.args)>>
               /\ Len(config.AllowedTables) > 0 =>
                      Listed(ResolvedName(config, last.args), config.AllowedTables)
        /\ ( /\ Len(config.AllowedTables) > 0
             /\ ~Listed(ResolvedName(config, last.args), config.AllowedTables) ) =>
               /\ last.sent = <<>>
               /\ last.err = Error("table access denied", ResolvedName(config, last.args))
        /\ ( \/ Len(config.AllowedTables) = 0
             \/ Listed(ResolvedName(config, last.args), config.AllowedTables) ) =>
               /\ last.err.kind # "table access denied"
               /\ last.sent # <<>>

\* GetTableSchema(d, s2, s1.t1) was refused under a table allowlist that
\* lists c.s1.t1, the error naming d.s1.t1.
CheckedAfterResolutionWitness ==
    /\ last.op = "GetTableSchema"
    /\ last.args = <<CatalogD, SchemaS2, Dotted(<<SchemaS1, TableT1>>)>>
    /\ config.AllowedTables = <<Dotted(<<CatalogC, SchemaS1, TableT1>>)>>
    /\ last.err = Error("table access denied", Dotted(<<CatalogD, SchemaS1, TableT1>>))
    /\ engineLog = <<>>

\* The catalog and the schema a metadata call is about.
CalledCatalog ==
    IF last.op = "GetTableSchema" THEN Split(ResolvedName(config, last.args), ".")[1]
    ELSE IF last.args[1] = <<>> THEN config.Catalog ELSE last.args[1]

CalledSchema ==
    IF last.op = "GetTableSchema"
    THEN Dotted(<<Split(ResolvedName(config, last.args), ".")[1],
                  Split(ResolvedName(config, last.args), ".")[2]>>)
    ELSE Dotted(<<CalledCatalog,
                  IF last.args[2] = <<>> THEN config.Schema ELSE last.args[2]>>)

\* C29: under a catalog allowlist that is not empty, ListSchemas, ListTables
\* and GetTableSchema hand the engine nothing and return nothing for a
\* catalog it does not list; under a schema allowlist that is not empty,
\* ListTables and GetTableSchema do so for a schema it does not list.
LayersCompose ==
    /\ ( /\ last.op \in {"ListSchemas", "ListTables", "GetTableSchema"}
         /\ Len(config.AllowedCatalogs) > 0
         /\ ~Listed(CalledCatalog, config.AllowedCatalogs) ) =>
           /\ last.sent = <<>>
           /\ last.out = <<>>
    /\ ( /\ last.op \in {"ListTables", "GetTableSchema"}
         /\ Len(config.AllowedSchemas) > 0
         /\ ~Listed(CalledSchema, config.AllowedSchemas) ) =>
           /\ last.sent = <<>>
           /\ last.out = <<>>

\* ListTables(d, s2) returned tables under a catalog allowlist and a schema
\* allowlist that list c and c.s1 only, and under no table allowlist.
LayersComposeWitness ==
    /\ last.op = "ListTables"
    /\ last.args = <<CatalogD, SchemaS2>>
    /\ config.AllowedCatalogs = <<CatalogC>>
    /\ config.AllowedSchemas = <<Dotted(<<CatalogC, SchemaS1>>)>>
    /\ config.AllowedTables = <<>>
    /\ last.out # <<>>
    /\ last.sent # <<>>

(***************************************************************************)
(* Properties of the configuration.                                        *)
(***************************************************************************)
\* The provider an environment names, in lower case.
ProviderOf(env) == ToLower(getEnv(env, OAUTH_PROVIDER, <<>>))

OIDCProviders == {<<"o", "k", "t", "a">>, <<"g", "o", "o", "g", "l", "e">>, <<"a", "z", "u", "r", "e">>}

\* OAUTH_ENABLED does not switch OAuth off: it is not set, or empty, or a
\* true value.
OAuthOn(env) ==
    \/ getEnv(env, OAUTH_ENABLED, <<>>) = <<>>
    \/ ParseBool(getEnv(env, OAUTH_ENABLED, <<>>))

\* Initialize was given an empty secret or an empty audience and returned
\* an error, leaving the validator without secret and audience.
InitializeFailsClosed ==
    (/\ validation.op = "Initialize"
     /\ \/ validation.token[1].JWTSecret = ""
        \/ validation.token[1].OIDCAudience = "")
        => /\ validation.err # NoError
           /\ ~validator.initialized

NamesAudience(aud, audience) ==
    \/ aud.kind = "string" /\ aud.value = <<audience>>
    \/ aud.kind = "list" /\ audience \in {aud.value[k] : k \in 1..Len(aud.value)}

\* C4: for a token signed with the configured secret and not expired,
\* ValidateToken succeeds when aud is the configured audience or a list
\* holding it, and otherwise fails with an audience error that tells a
\* missing claim from a wrong value; whatever the token, it returns an
\* identity only when the audience matches.
AudienceEnforced ==
    validation.op = "ValidateToken" =>
        LET token == validation.token[1]
            named == NamesAudience(token.aud, validator.audience)
        IN  /\ validation.user # <<>> => named
            /\ (token.wellFormed /\ token.key = validator.secret /\ ~token.expired) =>
                   /\ named => (validation.err = NoError /\ validation.user # <<>>)
                   /\ ~named =>
                          /\ validation.err.kind = "AudienceMismatch"
                          /\ validation.user = <<>>
                          /\ (validation.err.detail = "missing audience claim")
                                 = (token.aud.kind = "absent")

\* A correctly signed, unexpired token whose aud list omits the audience
\* was refused.
AudienceEnforcedWitness ==
    /\ validation.op = "ValidateToken"
    /\ validation.token[1].wellFormed
    /\ validation.token[1].key = validator.secret
    /\ ~validation.token[1].expired
    /\ validation.token[1].aud = ListAudience(<<"SVC", "other">>)
    /\ validation.err.kind = "AudienceMismatch"

(***************************************************************************)
(* Properties of the OAuth2 handlers.                                      *)
(***************************************************************************)
\* The requests HandleAuthorize has sent to the provider.
Authorizations == {p \in provider : p.endpoint = "authorize"}

\* A callback that carries a code and no error.
CodeCallback ==
    /\ response.handler = "HandleCallback"
    /\ response.req.error = <<>>
    /\ response.req.code # <<>>

\* C7: with a fixed redirect URI, a callback that carries a code c and the
\* state that HandleAuthorize sent the provider for a client's state s and
\* redirect URI r is answered by a 302 to r that hands the client the code
\* c and the state s.
ProxyRoundTrip ==
    \A p \in Authorizations :
        (handler.RedirectURI # <<>> /\ CodeCallback
             /\ response.req.state = p.sent.state) =>
            /\ response.status = 302
            /\ ClientView(response.location) =
                   [target |-> Before(p.req.redirect_uri, "?"),
                    code |-> response.req.code,
                    state |-> p.req.state]

\* C8: with a fixed redirect URI, every request HandleAuthorize sends the
\* provider has the fixed URI as redirect_uri, a state that decodes to the
\* client's state and redirect URI, and the client's code_challenge and
\* code_challenge_method.
ProxyAuthorize ==
    handler.RedirectURI # <<>> =>
        \A p \in Authorizations :
            /\ p.sent.redirect_uri = handler.RedirectURI
            /\ decodeState(p.sent.state) =
                   [ok |-> TRUE, state |-> p.req.state, redirect |-> p.req.redirect_uri]
            /\ p.sent.code_challenge = p.req.code_challenge
            /\ p.sent.code_challenge_method = p.req.code_challenge_method

\* C9: the redirect URI of every request sent to the provider, by
\* HandleAuthorize or by HandleToken, is the one its own request
\* determines: the fixed URI if one is configured, the request's
\* redirect_uri otherwise.
RedirectURIOwn ==
    \A p \in provider :
        p.sent.redirect_uri =
            IF handler.RedirectURI # <<>> THEN handler.RedirectURI
            ELSE p.req.redirect_uri

\* A state of the legacy format: one delimiter between two parts that are
\* not empty.
LegacyState(state) ==
    /\ Len(Split(state, "|")) = 2
    /\ Split(state, "|")[1] # <<>>
    /\ Split(state, "|")[2] # <<>>

\* C10: with a fixed redirect URI, a callback whose state is no structured
\* encoding is redirected only if the state is of the legacy format, and
\* is otherwise answered by the completion page with status 200.
CallbackFallback ==
    (handler.RedirectURI # <<>> /\ CodeCallback
         /\ ~decodeState(response.req.state).ok) =>
        /\ response.status = 302 => LegacyState(response.req.state)
        /\ ~LegacyState(response.req.state) =>
               /\ response.status = 200
               /\ response.body = showSuccessPage.body

\* C16: a callback with an error parameter, whatever its code and state,
\* and a callback without code are answered by a 400, which is neither a
\* redirect nor the completion page; every redirect of a callback was made
\* for a code that is not empty and holds that code.
CallbackFailure ==
    response.handler = "HandleCallback" =>
        /\ (response.req.error # <<>> \/ response.req.code = <<>>) =>
               /\ response.status = 400
               /\ response.location = <<>>
               /\ response.body # showSuccessPage.body
        /\ response.status \in 300..399 =>
               /\ response.req.code # <<>>
               /\ Contains(response.location, <<"c", "o", "d", "e", "=">> \o response.req.code)

\* A callback that carries an error, a code and a state that decodes was
\* answered by a 400 while a fixed redirect URI is configured.
CallbackFailureWitness ==
    /\ response.handler = "HandleCallback"
    /\ handler.RedirectURI # <<>>
    /\ response.req.error # <<>>
    /\ response.req.code # <<>>
    /\ decodeState(response.req.state).ok
    /\ response.status = 400

\* The token requests HandleToken has sent to the provider.
Exchanges == {p \in provider : p.endpoint = "token"}

\* A token request that names another grant type or has no code.
Unacceptable(req) == req.grant_type # authorization_code \/ req.code = <<>>

\* C17: a token request with another grant type than authorization_code or
\* without code is answered by a 400, and no request for it is sent, or
\* about to be sent, to the provider's token endpoint.
TokenRequestRefused ==
    /\ (response.handler = "HandleToken" /\ Unacceptable(response.req)) =>
           response.status = 400
    /\ \A p \in Exchanges : ~Unacceptable(p.req)
    /\ \A slot \in Slots : inflight[slot].pc = "Exchange" => ~Unacceptable(inflight[slot].req)

\* A token request with a code and the grant type refresh_token was
\* answered by a 400 and nothing has been sent to the provider.
TokenRequestRefusedWitness ==
    /\ response.handler = "HandleToken"
    /\ response.req.code # <<>>
    /\ response.req.grant_type = <<"r", "e", "f", "r", "e", "s", "h", "_", "t", "o", "k", "e", "n">>
    /\ response.status = 400
    /\ provider = {}

\* C18: the redirect_uri sent to the provider in the token exchange of a
\* login attempt is the one sent to it in the Authorize step of that
\* attempt, an attempt being an Authorize request and a token request of a
\* client with one redirect URI.
SameRedirectURI ==
    \A p \in Authorizations, q \in Exchanges :
        p.req.redirect_uri = q.req.redirect_uri =>
            q.sent.redirect_uri = p.sent.redirect_uri

\* An Authorize request and a token request of one client have both
\* reached the provider.
SameRedirectURIWitness ==
    \E p \in Authorizations, q \in Exchanges :
        /\ p.req.redirect_uri = q.req.redirect_uri
        /\ q.sent.redirect_uri # p.sent.redirect_uri

\* The values of a key among form fields.
ValuesOf(values, key) == SelectSeq(values, LAMBDA p : p[1] = key)

\* Two bodies hold the same form fields, code_verifier aside.
SameOtherFields(body, sentBody) ==
    LET a == ParseQuery(body)
        b == ParseQuery(sentBody)
    IN  \A key \in ({a[k][1] : k \in 1..Len(a)} \cup {b[k][1] : k \in 1..Len(b)})
                      \ {code_verifier} :
            ValuesOf(a, key) = ValuesOf(b, key)

\* The request was handed on as it came.
PassedThrough(x) == x.sent.out = [err |-> FALSE, sent |-> <<x.sent.post>>]

\* What HandleToken sends for a token request: with a verifier, the request
\* of Exchange with that one code_verifier and its other fields as they
\* were; without verifier, the request of Exchange, which holds none.
VerifierSent(x) ==
    /\ x.req.code_verifier # <<>> =>
           /\ ~x.sent.out.err
           /\ x.sent.out.sent # <<>>
           /\ x.sent.out.sent[1].Method = x.sent.post.Method
           /\ x.sent.out.sent[1].Path = x.sent.post.Path
           /\ ValuesOf(ParseQuery(x.sent.out.sent[1].Body), code_verifier) =
                  << <<code_verifier, x.req.code_verifier>> >>
           /\ SameOtherFields(x.sent.post.Body, x.sent.out.sent[1].Body)
    /\ x.req.code_verifier = <<>> =>
           /\ PassedThrough(x)
           /\ ValuesOf(ParseQuery(x.sent.post.Body), code_verifier) = <<>>

StateConsumedOnce ==
    [][(/\ response.handler = "HandleCallback"
        /\ response.status = 302
        /\ decodeState(response.req.state).ok
        /\ response' # response
        /\ response'.handler = "HandleCallback"
        /\ response'.req.state = response.req.state
        /\ UNCHANGED <<handler, inflight, provider>>)
           => response'.status # 302]_vars

\* A callback with the code c2 was redirected to the client for a state
\* that decodes.
StateConsumedOnceWitness ==
    /\ response.handler = "HandleCallback"
    /\ response.status = 302
    /\ decodeState(response.req.state).ok
    /\ response.req.code = <<"c", "2">>

\* C30: every redirect of a callback targets a redirect URI that a request
\* to authorize placed in the state HandleAuthorize sent to the provider.
RedirectRecorded ==
    (response.handler = "HandleCallback" /\ response.status = 302) =>
        \E p \in Authorizations :
            /\ decodeState(p.sent.state).ok
            /\ decodeState(p.sent.state).redirect = p.req.redirect_uri
            /\ ClientView(response.location).target = Before(p.req.redirect_uri, "?")

\* A callback whose state no HandleAuthorize issued was redirected, with
\* its code, to the URI the state names while the provider had been sent
\* no request.
RedirectRecordedWitness ==
    /\ response.handler = "HandleCallback"
    /\ provider = {}
    /\ response.req.state = <<"x", "|", "h", "t", "t", "p", ":", "/", "/", "a", "/", "c">>
    /\ response.status = 302
    /\ ClientView(response.location) =
           [target |-> <<"h", "t", "t", "p", ":", "/", "/", "a", "/", "c">>, code |-> AuthorizationCode, state |-> <<"x">>]

(***************************************************************************)
(* Properties of the registration of clients.                              *)
(***************************************************************************)
\* What a registration response holds, for the handler's configuration and
\* the members the request was decoded to.
Registered ==
    /\ response.status = 201
    /\ response.body.client_id = JSONString(handler.ClientID)
    /\ response.body.client_secret = JSONString(<<>>)
    /\ response.body.token_endpoint_auth_method = JSONString(<<"n", "o", "n", "e">>)
    /\ response.body.redirect_uris =
           IF handler.RedirectURI # <<>> THEN JSONArray(<<handler.RedirectURI>>)
           ELSE MapValue(response.req.body.members, "redirect_uris")
    /\ \A sec \in ClientSecrets :
           response.body =
               HandleRegister([handler EXCEPT !.ClientSecret = sec], response.req).body
    /\ \A field \in DOMAIN response.body :
           response.body[field] = JSONString(handler.ClientSecret) =>
               /\ field = "client_name"
               /\ <<field, JSONString(handler.ClientSecret)>> \in response.req.body.members

PasswordShown ==
    \/ Contains(last.err.detail, last.args[1])
    \/ Contains(last.err.detail, QueryEscape(last.args[1]))

\* C23 as stated: for every password that is not empty, the message
\* sanitizeConnectionError returns holds the password neither as it is nor
\* URL-encoded.
PasswordRedacted ==
    (last.op = "NewClient" /\ last.args[1] # <<>>) => ~PasswordShown

\* A password that has neither bracket of the placeholder and is no part
\* of it.
ApartFromPlaceholder(password) ==
    /\ ~Contains(password, <<"[">>)
    /\ ~Contains(password, <<"]">>)
    /\ ~Contains(PASSWORD_REDACTED, password)

\* C23, amended: the same for every password that is not empty, has no
\* bracket and is no part of the placeholder; the message of an error
\* that held no password is returned as it was.
PasswordApartRedacted ==
    last.op = "NewClient" =>
        /\ (last.args[1] # <<>> /\ ApartFromPlaceholder(last.args[1])) => ~PasswordShown
        /\ (\/ last.args[1] = <<>>
            \/ /\ ~Contains(last.answer, last.args[1])
               /\ ~Contains(last.answer, QueryEscape(last.args[1]))) =>
               last.err.detail = last.answer

\* The ping failed with a message that holds the password p@s as it is
\* and URL-encoded, and both were replaced.
PasswordApartRedactedWitness ==
    /\ last.op = "NewClient"
    /\ last.args = <<<<"p", "@", "s">>, TRUE>>
    /\ last.answer = <<"p", "%", "4", "0", "s", ":", " ", "p", "@", "s">>
    /\ last.err = Error("failed to ping Trino",
                        PASSWORD_REDACTED \o <<":", " ">> \o PASSWORD_REDACTED)

(***************************************************************************)
(* Properties of the calls to the provider.                                *)
(***************************************************************************)
\* C21: every call to the provider that is pending, the discovery at
\* construction or the token exchange, ends, whether the provider answers
\* or not, and with it the handling of the request.
OutboundCallsEnd == \A slot \in Slots : Pending(slot) ~> ~Pending(slot)

\* The discovery of the endpoints ends, and the handler is constructed.
DiscoveryEnds == ~Constructed ~> Constructed

\* A token exchange has been pending for MaxWait seconds, and nothing but
\* an answer of the provider ends it.
OutboundCallsEndWitness ==
    /\ inflight["g1"].pc = "Exchange"
    /\ inflight["g1"].out.waited = MaxWait
    /\ Deadline(inflight["g1"].out.call) = 0
    /\ ~ENABLED Expire("g1")
    /\ ~ENABLED Tick

(***************************************************************************)
(* Properties of the mode.                                                 *)
(***************************************************************************)
\* The mode the configuration selects is native.
NativeMode == config.cfg[1].OAuthMode = native

\* C22: in native mode a request to authorize, callback, token or register
\* is answered by a 404, and nothing is sent to the provider, no client is
\* redirected and no registration is answered.
ProxyRoutesClosed ==
    (NativeMode /\ response.handler # "none") =>
        /\ response.status = 404
        /\ response.location = <<>>
        /\ provider = {}

\* In native mode, which no OAUTH_MODE selects by default, HandleAuthorize
\* has redirected a client to the provider.
ProxyRoutesClosedWitness ==
    /\ NativeMode
    /\ getEnv(config.env, OAUTH_MODE, <<>>) = <<>>
    /\ response.handler = "HandleAuthorize"
    /\ response.status = 307
    /\ \E p \in provider : p.endpoint = "authorize" /\ p.req = response.req

====
